---- MODULE Spec2Model ----
(***************************************************************************)
(* Risk-decision pipeline of ai-engine/ml: the circuit breaker             *)
(* (ml/config.py), the bounded executor and GovernmentMLService            *)
(* .evaluate_risk (ml/serving/government_service.py), the data-quality     *)
(* gate (ml/core/validation/data_quality.py), the adaptive ensemble        *)
(* weights (ml/core/inference/adaptive_ensemble.py), the feedback loop     *)
(* (ml/core/feedback/learning.py), the confidence manager                  *)
(* (ml/core/confidence/thresholds.py), the uncertainty quantifier          *)
(* (ml/core/uncertainty/quantifier.py), the calibrator                     *)
(* (ml/core/calibration/calibrator.py), the fixed-weight ensemble          *)
(* (ml/core/inference/ensemble.py) and MLService (ml/serving/service.py).  *)
(*                                                                         *)
(* Scores are fixed-point integers: quality scores in 1/10000, the         *)
(* measurements of a text in 1/1000.  Time is in seconds.                  *)
(***************************************************************************)
EXTENDS Integers, Sequences, FiniteSets, TLC

VARIABLES
    breaker,        \* the process-wide CircuitBreaker (config.py:49)
    now,            \* time.time(), in seconds
    streak,         \* history: record_failure calls in a row
    last_call,      \* history: what the last can_execute() call did
    strict_mode,    \* DataQualityGate.strict_mode
    seen_hashes,   \* DataQualityGate.seen_hashes
    dq_arg,         \* the text about to be validated (pure-function check)
    dq_last,        \* history: the last DataQualityGate.validate call
    validated,      \* history: per normalized form, validate calls so far
    evicted,        \* history: forms discarded since they were last added
    pc,             \* per request: position in evaluate_risk
    text,           \* per request: the text argument
    worker,         \* per request: state of the with_timeout worker thread
    future,         \* per request: what the worker's future holds
    dq_result,      \* per request: dq_result of evaluate_risk
    uncertainty_result, \* per request: uncertainty_result of evaluate_risk
    raised,         \* per request: the collaborator that raised, if any
    resp,           \* per request: the response returned
    outcome,        \* per request: how evaluate_risk ended
    trace,          \* history, per request: the components called, in order
    adaptive_weights,   \* AdaptiveEnsemble.adaptive_weights
    feedback_history,   \* len(AdaptiveEnsemble.feedback_history)
    updates,            \* history: _update_weights runs since the last reset
    feedback_records,   \* FeedbackLoop.feedback_records
    metrics_by_domain,  \* FeedbackLoop.metrics_by_domain
    overall_metrics,    \* FeedbackLoop._overall_metrics
    submitted,          \* history: submit_correction calls so far
    fb_last,            \* history: the last submit_correction call
    pure_arg,           \* the call about to be made (pure-function checks)
    pure_ret,           \* history: the last such call and what it returned
    decision_history,   \* ConfidenceManager.decision_history
    in_flight,          \* per thread: whether it is inside evaluate_risk
    fail_pc,            \* per thread: position inside record_failure
    fail_read,          \* per thread: the failure_count it has loaded
    svc_last            \* history: the last request made to either service

breakerVars == <<breaker, now, streak, last_call>>
gateVars == <<strict_mode, seen_hashes, dq_arg, dq_last, validated, evicted>>
requestVars == <<pc, text, worker, future, dq_result, uncertainty_result,
                 raised, resp, outcome, trace>>
ensembleVars == <<adaptive_weights, feedback_history, updates>>
feedbackVars == <<feedback_records, metrics_by_domain, overall_metrics,
                  submitted, fb_last>>
callVars == <<pure_arg, pure_ret, decision_history>>
threadVars == <<in_flight, fail_pc, fail_read>>
sharedVars == <<svc_last>>
vars == <<breakerVars, gateVars, requestVars, ensembleVars, feedbackVars,
          callVars, threadVars, sharedVars>>

None == -1

(***************************************************************************)
(* Bounds of the model                                                     *)
(***************************************************************************)
TickStep == 30
MaxTime == 91
MaxFailures == 7
NumRequests == 1
MaxFeedback == 10
MaxUpdates == 2

(***************************************************************************)
(* ml/config.py: MLConfig and CircuitBreaker                               *)
(***************************************************************************)
circuit_breaker_threshold == 5
circuit_breaker_reset == 60
max_text_length == 5000

CircuitBreaker(threshold, reset_timeout) ==
    [threshold |-> threshold, reset_timeout |-> reset_timeout,
     failure_count |-> 0, last_failure_time |-> None, is_open |-> FALSE]

\* Python truthiness of Optional[float]: None and 0.0 are false
Truthy(t) == t # None /\ t # 0

record_failure(b, t) ==
    [b EXCEPT !.failure_count = b.failure_count + 1,
              !.last_failure_time = t,
              !.is_open = IF b.failure_count + 1 >= b.threshold
                          THEN TRUE ELSE b.is_open]

record_success(b) ==
    [b EXCEPT !.failure_count = 0, !.is_open = FALSE]

\* can_execute returns a value and may close the breaker
can_execute_KeepCount(b, t) ==
    IF ~b.is_open
    THEN [ret |-> TRUE, brk |-> b]
    ELSE IF Truthy(b.last_failure_time)
            /\ (t - b.last_failure_time) >= b.reset_timeout
         THEN [ret |-> TRUE, brk |-> [b EXCEPT !.is_open = FALSE]]
         ELSE [ret |-> FALSE, brk |-> b]

\* can_execute with a half-open state: the timeout closes the breaker but
\* keeps the failures counted so far
can_execute_HalfOpen(b, t) ==
    IF ~b.is_open
    THEN [ret |-> TRUE, brk |-> b]
    ELSE IF Truthy(b.last_failure_time)
            /\ (t - b.last_failure_time) > b.reset_timeout
         THEN [ret |-> TRUE, brk |-> [b EXCEPT !.is_open = FALSE]]
         ELSE [ret |-> FALSE, brk |-> b]

can_execute(b, t) ==
    IF ~b.is_open
    THEN [ret |-> TRUE, brk |-> b]
    ELSE IF Truthy(b.last_failure_time)
            /\ (t - b.last_failure_time) > b.reset_timeout
         THEN [ret |-> TRUE,
               brk |-> [b EXCEPT !.is_open = FALSE, !.failure_count = 0]]
         ELSE [ret |-> FALSE, brk |-> b]

(***************************************************************************)
(* ml/core/validation/data_quality.py: DataQualityGate                     *)
(*                                                                         *)
(* A text is its characters (what _compute_hash reads) together with the   *)
(* measurements the other checks take of it: its length in characters,     *)
(* the common-word ratio, whether a truncation marker matches, whether it  *)
(* ends in punctuation, whether it is upper case, the special-character    *)
(* and unique-word ratios (the latter 1000 for a text without words) and   *)
(* the number of URLs.                                                     *)
(***************************************************************************)
MIN_TEXT_LENGTH == 10
MAX_TEXT_LENGTH == 50000
MIN_QUALITY_SCORE == 6000

\* the duplicate set holds 10000 hashes and drops 5000 on overflow
\* (data_quality.py:140-141); the model scales both, keeping the ratio
MaxSeenHashes == 4
EvictCount == MaxSeenHashes \div 2

Lower(c) == IF c = "A" THEN "a" ELSE IF c = "B" THEN "b" ELSE c

RECURSIVE LStrip(_)
LStrip(s) == IF s # <<>> /\ Head(s) = " " THEN LStrip(Tail(s)) ELSE s

RECURSIVE RStrip(_)
RStrip(s) ==
    IF s # <<>> /\ s[Len(s)] = " " THEN RStrip(SubSeq(s, 1, Len(s) - 1)) ELSE s

\* re.sub(r'\s+', ' ', s)
RECURSIVE Collapse(_)
Collapse(s) ==
    IF Len(s) < 2 THEN s
    ELSE IF s[1] = " " /\ s[2] = " " THEN Collapse(Tail(s))
         ELSE <<s[1]>> \o Collapse(Tail(s))

\* _compute_hash: md5 of the normalized text; md5 is taken to be injective,
\* so the digest is represented by the normalized text itself
_compute_hash(t) ==
    Collapse(RStrip(LStrip([i \in 1..Len(t.chars) |-> Lower(t.chars[i])])))

check_language(t) == [valid |-> t.lang >= 100, ratio |-> t.lang]

check_length(t) ==
    MIN_TEXT_LENGTH <= t.length /\ t.length <= MAX_TEXT_LENGTH

check_truncation(t) == t.marker \/ (t.length > 100 /\ ~t.punct)

\* the outcomes of check_duplicate: list(set)[:5000] takes the hashes in
\* the set's iteration order, which is unrelated to their age, so any
\* EvictCount of them may be the ones discarded
check_duplicate_NoAdd(t, seen) ==
    LET h == _compute_hash(t) IN
    IF h \in seen
    THEN {[dup |-> TRUE, hash |-> h, seen |-> seen]}
    ELSE {[dup |-> FALSE, hash |-> h, seen |-> seen]}

check_duplicate(t, seen) ==
    LET h == _compute_hash(t)
        added == seen \cup {h}
    IN  IF h \in seen
        THEN {[dup |-> TRUE, hash |-> h, seen |-> seen]}
        ELSE IF Cardinality(added) > MaxSeenHashes
             THEN {[dup |-> FALSE, hash |-> h, seen |-> added \ E] :
                      E \in {X \in SUBSET added : Cardinality(X) = EvictCount}}
             ELSE {[dup |-> FALSE, hash |-> h, seen |-> added]}

\* check_content_quality: the score in 1/100 and the issue codes in order
ContentIssues(t) ==
    (IF t.upper THEN <<"ALL_CAPS">> ELSE <<>>)
    \o (IF t.special > 100 THEN <<"EXCESSIVE_SPECIAL_CHARS">> ELSE <<>>)
    \o (IF t.unique < 300 THEN <<"REPETITIVE_CONTENT">> ELSE <<>>)
    \o (IF t.urls > 5 THEN <<"EXCESSIVE_URLS">> ELSE <<>>)

Max(a, b) == IF a >= b THEN a ELSE b
Min(a, b) == IF a <= b THEN a ELSE b

check_content_quality(t) ==
    [score |-> Max(0, 100 - (IF t.upper THEN 10 ELSE 0)
                          - (IF t.special > 100 THEN 15 ELSE 0)
                          - (IF t.unique < 300 THEN 20 ELSE 0)
                          - (IF t.urls > 5 THEN 10 ELSE 0)),
     issues |-> ContentIssues(t)]

Issue(code, severity) == [code |-> code, severity |-> severity]

HighCount(issues) ==
    Cardinality({i \in 1..Len(issues) : issues[i].severity = "HIGH"})

\* usable, as validate computes it (data_quality.py:263-267)
Usable_IgnoreHigh(score, issues, strict) ==
    IF strict /\ Len(issues) > 0 THEN FALSE
    ELSE score >= MIN_QUALITY_SCORE

Usable(score, issues, strict) ==
    IF strict /\ Len(issues) > 0 THEN FALSE
    ELSE score >= MIN_QUALITY_SCORE /\ HighCount(issues) = 0

\* validate with the outcome d of its check_duplicate call
ValidateWith(t, d, strict) ==
    LET lang == check_language(t)
        len_ok == check_length(t)
        trunc == check_truncation(t)
        content == check_content_quality(t)
        issues ==
            (IF ~lang.valid THEN <<Issue("WRONG_LANGUAGE", "HIGH")>> ELSE <<>>)
            \o (IF ~len_ok
                THEN <<Issue("INVALID_LENGTH",
                             IF t.length < MIN_TEXT_LENGTH
                             THEN "HIGH" ELSE "MEDIUM")>>
                ELSE <<>>)
            \o (IF trunc THEN <<Issue("TRUNCATED_CONTENT", "MEDIUM")>> ELSE <<>>)
            \o (IF d.dup THEN <<Issue("DUPLICATE_CONTENT", "LOW")>> ELSE <<>>)
            \o [i \in 1..Len(content.issues) |-> Issue(content.issues[i], "LOW")]
        penalised == 100 - (IF ~lang.valid THEN 30 ELSE 0)
                         - (IF ~len_ok THEN 25 ELSE 0)
                         - (IF trunc THEN 15 ELSE 0)
                         - (IF d.dup THEN 10 ELSE 0)
        quality_score == Max(0, Min(10000, penalised * content.score))
    IN  [data_quality_score |-> quality_score,
         issues |-> issues,
         usable |-> Usable(quality_score, issues, strict),
         text_hash |-> d.hash]

\* the outcomes of validate: the result and the new duplicate set
validate(t, seen, strict) ==
    {[result |-> ValidateWith(t, d, strict), seen |-> d.seen] :
        d \in check_duplicate(t, seen)}

HasIssue(result, code) ==
    \E i \in 1..Len(result.issues) : result.issues[i].code = code

(***************************************************************************)
(* Inputs                                                                  *)
(***************************************************************************)
Text(chars, length, lang, marker, punct, upper, special, unique, urls) ==
    [chars |-> chars, length |-> length, lang |-> lang, marker |-> marker,
     punct |-> punct, upper |-> upper, special |-> special,
     unique |-> unique, urls |-> urls]

\* a well-formed sentence with the given characters
Clean(chars) == Text(chars, 50, 400, FALSE, TRUE, FALSE, 0, 1000, 0)
\* a five-character text
Short(chars) == Text(chars, 5, 400, FALSE, TRUE, FALSE, 0, 1000, 0)
\* a well-formed text of 6000 characters
Long(chars) == Text(chars, 6000, 400, FALSE, TRUE, FALSE, 0, 1000, 0)

\* every combination of measurements around the thresholds of the checks
AllTexts ==
    [chars : {<<"a">>, <<"A", " ">>},
     length : {5, 50, 150, 50001},
     lang : {99, 100},
     marker : BOOLEAN, punct : BOOLEAN, upper : BOOLEAN,
     special : {100, 101}, unique : {299, 300}, urls : {5, 6}]

GateChars ==
    {<<"a">>, <<"A", " ">>, <<"a", "a">>, <<"a", " ", "a">>,
     <<"A", " ", " ", "a">>, <<"b">>, <<"b", "a">>}

GateTexts == {Clean(c) : c \in GateChars} \cup {Short(<<"a">>)}

Forms == {_compute_hash(t) : t \in GateTexts \cup AllTexts}

(***************************************************************************)
(* The state after construction                                            *)
(***************************************************************************)
NoCall == [called |-> FALSE]

BreakerInit ==
    /\ breaker = CircuitBreaker(circuit_breaker_threshold, circuit_breaker_reset)
    /\ now = 1
    /\ streak = 0
    /\ last_call = NoCall

GateInit ==
    /\ strict_mode = FALSE
    /\ seen_hashes = {}
    /\ dq_arg = [pending |-> FALSE]
    /\ dq_last = NoCall
    /\ validated = [h \in Forms |-> 0]
    /\ evicted = {}

(***************************************************************************)
(* The clock                                                               *)
(***************************************************************************)
Tick ==
    /\ now + TickStep <= MaxTime
    /\ now' = now + TickStep
    /\ UNCHANGED <<breaker, streak, last_call>>

(***************************************************************************)
(* Calls on one CircuitBreaker, one after the other                        *)
(***************************************************************************)
RecordFailure ==
    /\ breaker.failure_count < MaxFailures
    /\ breaker' = record_failure(breaker, now)
    /\ streak' = streak + 1
    /\ UNCHANGED <<now, last_call>>

RecordSuccess ==
    /\ breaker' = record_success(breaker)
    /\ streak' = 0
    /\ UNCHANGED <<now, last_call>>

CanExecute ==
    LET ce == can_execute(breaker, now) IN
    /\ breaker' = ce.brk
    /\ last_call' = [called |-> TRUE, ret |-> ce.ret,
                     reclosed |-> breaker.is_open /\ ~ce.brk.is_open]
    /\ streak' = IF ce.brk = breaker THEN streak ELSE 0
    /\ UNCHANGED now

(***************************************************************************)
(* Calls on one DataQualityGate, one after the other                       *)
(***************************************************************************)
\* validate(t) taking the outcome o, with the history of the call: how often
\* the form was validated before, and whether an overflow of the set has
\* discarded its hash since
DoValidate(t, o) ==
    LET h == _compute_hash(t) IN
    /\ o \in validate(t, seen_hashes, strict_mode)
    /\ seen_hashes' = o.seen
    /\ dq_last' = [called |-> TRUE, text |-> t, result |-> o.result,
                   nth |-> validated[h], lost |-> h \in evicted]
    /\ validated' = [validated EXCEPT ![h] = Min(2, @ + 1)]
    /\ evicted' = IF h \notin seen_hashes
                      /\ Cardinality(seen_hashes \cup {h}) > MaxSeenHashes
                   THEN (evicted \ {h}) \cup ((seen_hashes \cup {h}) \ o.seen)
                   ELSE evicted \ {h}

Validate ==
    \E t \in GateTexts : \E o \in validate(t, seen_hashes, strict_mode) :
        /\ DoValidate(t, o)
        /\ UNCHANGED <<strict_mode, dq_arg>>

ValidatePending ==
    /\ dq_arg.pending
    /\ \E o \in validate(dq_arg.text, seen_hashes, strict_mode) :
           DoValidate(dq_arg.text, o)
    /\ dq_arg' = [pending |-> FALSE]
    /\ UNCHANGED strict_mode

(***************************************************************************)
(* ml/serving/government_service.py: with_timeout and                      *)
(* GovernmentMLService.evaluate_risk                                       *)
(*                                                                         *)
(* A request is at "idle" before evaluate_risk is called and at "done"     *)
(* once it has returned or raised.  with_timeout submits the stage to a    *)
(* worker thread and waits on its future ("dq_wait", "ens_wait"); when the *)
(* deadline expires the TimeoutError leaves the with block through         *)
(* ThreadPoolExecutor.__exit__, i.e. shutdown(wait=True), which joins the  *)
(* worker ("dq_join", "ens_join").                                         *)
(***************************************************************************)
Requests == 1..NumRequests

ServiceTexts == {Clean(<<"a">>), Long(<<"A", " ">>), Short(<<"b">>)}

\* values of calibration_result.calibrated_score, in 1/10000: the ends of
\* the range of Platt scaling with a = -1.2, b = 0.15 and the label border
CalibratedScores == {2592, 4000, 5374}

_get_risk_label(score) ==
    IF 7000 <= score /\ score < 10000 THEN "HIGH_RISK"
    ELSE IF 4000 <= score /\ score < 7000 THEN "MEDIUM_RISK"
    ELSE IF 1500 <= score /\ score < 4000 THEN "LOW_RISK"
    ELSE IF 0 <= score /\ score < 1500 THEN "NO_RISK"
    ELSE IF score >= 7000 THEN "HIGH_RISK" ELSE "NO_RISK"

_get_verdict(prediction) ==
    CASE prediction = "HIGH_RISK" -> "FAKE"
      [] prediction = "MEDIUM_RISK" -> "UNVERIFIED"
      [] prediction = "LOW_RISK" -> "UNVERIFIED"
      [] prediction = "NO_RISK" -> "REAL"
      [] prediction = "HUMAN_REVIEW" -> "ABSTAIN"
      [] OTHER -> "UNVERIFIED"

NoFuture == [set |-> FALSE]
NoResult == [set |-> FALSE]

RequestInit ==
    /\ pc = [r \in Requests |-> "idle"]
    /\ text = [r \in Requests |-> Clean(<<"a">>)]
    /\ worker = [r \in Requests |-> "none"]
    /\ future = [r \in Requests |-> NoFuture]
    /\ dq_result = [r \in Requests |-> NoResult]
    /\ uncertainty_result = [r \in Requests |-> NoResult]
    /\ raised = [r \in Requests |-> "none"]
    /\ resp = [r \in Requests |-> NoResult]
    /\ outcome = [r \in Requests |-> "none"]
    /\ trace = [r \in Requests |-> <<>>]

\* the request raises exc out of the try block: the except clauses record
\* the failure (government_service.py:282-287)
Fail_Silent(r, exc, called) ==
    /\ breaker' = breaker
    /\ outcome' = [outcome EXCEPT ![r] = exc]
    /\ trace' = [trace EXCEPT ![r] = @ \o called \o <<"record_failure">>]
    /\ pc' = [pc EXCEPT ![r] = "done"]

Fail(r, exc, called) ==
    /\ breaker' = record_failure(breaker, now)
    /\ outcome' = [outcome EXCEPT ![r] = exc]
    /\ trace' = [trace EXCEPT ![r] = @ \o called \o <<"record_failure">>]
    /\ pc' = [pc EXCEPT ![r] = "done"]

\* _check_circuit_breaker admits the request and with_timeout submits
\* validate to its worker
Admit(r, t, ce) ==
    /\ breaker' = ce.brk
    /\ pc' = [pc EXCEPT ![r] = "dq_wait"]
    /\ worker' = [worker EXCEPT ![r] = "running"]
    /\ outcome' = [outcome EXCEPT ![r] = "none"]
    /\ trace' = [trace EXCEPT ![r] = <<"circuit_breaker", "data_quality_gate">>]

\* _check_circuit_breaker raises, before the try block is entered
Reject_Counted(r, t, ce) ==
    /\ breaker' = record_failure(ce.brk, now)
    /\ pc' = [pc EXCEPT ![r] = "done"]
    /\ worker' = [worker EXCEPT ![r] = "none"]
    /\ outcome' = [outcome EXCEPT ![r] = "CircuitBreakerOpenError"]
    /\ trace' = [trace EXCEPT ![r] = <<"circuit_breaker">>]

Reject(r, t, ce) ==
    /\ breaker' = ce.brk
    /\ pc' = [pc EXCEPT ![r] = "done"]
    /\ worker' = [worker EXCEPT ![r] = "none"]
    /\ outcome' = [outcome EXCEPT ![r] = "CircuitBreakerOpenError"]
    /\ trace' = [trace EXCEPT ![r] = <<"circuit_breaker">>]

\* evaluate_risk is called: lines 167-176 up to the wait on the future
Begin(r) ==
    /\ pc[r] \in {"idle", "done"}
    /\ \E t \in ServiceTexts :
         LET ce == can_execute(breaker, now) IN
         /\ text' = [text EXCEPT ![r] = t]
         /\ IF ce.ret THEN Admit(r, t, ce) ELSE Reject(r, t, ce)
    /\ future' = [future EXCEPT ![r] = NoFuture]
    /\ dq_result' = [dq_result EXCEPT ![r] = NoResult]
    /\ uncertainty_result' = [uncertainty_result EXCEPT ![r] = NoResult]
    /\ raised' = [raised EXCEPT ![r] = "none"]
    /\ resp' = [resp EXCEPT ![r] = NoResult]
    /\ UNCHANGED <<now, streak, last_call, gateVars, ensembleVars, feedbackVars, callVars, threadVars, sharedVars>>

\* the worker thread runs its stage to the end
WorkerFinish(r) ==
    /\ worker[r] = "running"
    /\ worker' = [worker EXCEPT ![r] = "done"]
    /\ IF pc[r] \in {"dq_wait", "dq_join"}
       THEN \E o \in validate(text[r], seen_hashes, strict_mode) :
              /\ DoValidate(text[r], o)
              /\ future' = [future EXCEPT ![r] = [set |-> TRUE, result |-> o.result]]
       ELSE /\ future' = [future EXCEPT ![r] = [set |-> TRUE]]
            /\ UNCHANGED <<seen_hashes, dq_last, validated, evicted>>
    /\ UNCHANGED <<breakerVars, strict_mode, dq_arg, pc, text, dq_result,
                   uncertainty_result, raised, resp, outcome, trace,
                   ensembleVars, feedbackVars, callVars, threadVars, sharedVars>>

\* future.result(timeout) raises: the stage has not finished in time
Deadline(r) ==
    /\ pc[r] \in {"dq_wait", "ens_wait"}
    /\ worker[r] = "running"
    /\ pc' = [pc EXCEPT ![r] = IF pc[r] = "dq_wait" THEN "dq_join" ELSE "ens_join"]
    /\ UNCHANGED <<breakerVars, gateVars, text, worker, future, dq_result,
                   uncertainty_result, raised, resp, outcome, trace,
                   ensembleVars, feedbackVars, callVars, threadVars, sharedVars>>

\* the executor has shut down: TimeoutError reaches the except clause
Joined(r) ==
    /\ pc[r] \in {"dq_join", "ens_join"}
    /\ worker[r] = "done"
    /\ Fail(r, "TimeoutError", <<>>)
    /\ UNCHANGED <<now, streak, last_call, gateVars, text, worker, future,
                   dq_result, uncertainty_result, raised, resp, ensembleVars, feedbackVars, callVars, threadVars, sharedVars>>

\* validate returned in time: lines 172-186
GateReturned_NoShortCircuit(r) ==
    /\ pc[r] = "dq_wait"
    /\ worker[r] = "done"
    /\ dq_result' = [dq_result EXCEPT ![r] = future[r]]
    /\ pc' = [pc EXCEPT ![r] = "ens_wait"]
    /\ worker' = [worker EXCEPT ![r] = "running"]
    /\ trace' = [trace EXCEPT ![r] = @ \o <<"ensemble">>]
    /\ UNCHANGED <<breaker, outcome>>
    /\ UNCHANGED <<now, streak, last_call, gateVars, text, future,
                   uncertainty_result, raised, resp, ensembleVars, feedbackVars, callVars, threadVars, sharedVars>>

GateReturned(r) ==
    /\ pc[r] = "dq_wait"
    /\ worker[r] = "done"
    /\ dq_result' = [dq_result EXCEPT ![r] = future[r]]
    /\ IF ~future[r].result.usable
       THEN /\ Fail(r, "DataQualityError", <<>>)
            /\ UNCHANGED worker
       ELSE /\ pc' = [pc EXCEPT ![r] = "ens_wait"]
            /\ worker' = [worker EXCEPT ![r] = "running"]
            /\ trace' = [trace EXCEPT ![r] = @ \o <<"ensemble">>]
            /\ UNCHANGED <<breaker, outcome>>
    /\ UNCHANGED <<now, streak, last_call, gateVars, text, future,
                   uncertainty_result, raised, resp, ensembleVars, feedbackVars, callVars, threadVars, sharedVars>>

\* the components called after the ensemble when nothing raises
\* (government_service.py:188-230)
AfterEnsemble_Swapped ==
    <<"domain_classifier", "political_classifier", "uncertainty",
      "calibrator", "registry">>

AfterEnsemble ==
    <<"domain_classifier", "political_classifier", "calibrator",
      "uncertainty", "registry">>

Quantified(r, abstain) ==
    uncertainty_result' = [uncertainty_result EXCEPT ![r] =
                              [set |-> TRUE, abstain |-> abstain]]

\* the domain classifier raises: lines 188-195 and 285-287
ClassifierRaised(r) ==
    /\ raised' = [raised EXCEPT ![r] = "domain_classifier"]
    /\ Fail(r, "GovernmentMLServiceError", SubSeq(AfterEnsemble, 1, 1))
    /\ UNCHANGED <<uncertainty_result, resp>>

\* registry.log_inference raises: lines 188-230 and 285-287
RegistryRaised(r, abstain) ==
    /\ Quantified(r, abstain)
    /\ raised' = [raised EXCEPT ![r] = "registry"]
    /\ Fail(r, "GovernmentMLServiceError", AfterEnsemble)
    /\ UNCHANGED resp

\* lines 188-280 when nothing raises
Respond_AbstainFails(r, calibrated_score, abstain) ==
    LET prediction == _get_risk_label(calibrated_score) IN
    /\ Quantified(r, abstain)
    /\ UNCHANGED raised
    /\ IF abstain
       THEN /\ Fail(r, "GovernmentMLServiceError", AfterEnsemble)
            /\ UNCHANGED resp
       ELSE /\ breaker' = record_success(breaker)
            /\ resp' = [resp EXCEPT ![r] =
                          [set |-> TRUE, prediction |-> prediction,
                           verdict |-> _get_verdict(prediction),
                           calibrated_score |-> calibrated_score,
                           abstain |-> abstain]]
            /\ outcome' = [outcome EXCEPT ![r] = "response"]
            /\ trace' = [trace EXCEPT ![r] =
                            @ \o AfterEnsemble \o <<"record_success">>]
            /\ pc' = [pc EXCEPT ![r] = "done"]

\* evaluate_risk without lines 211-212: the label is kept when abstaining
Respond_KeepLabel(r, calibrated_score, abstain) ==
    LET prediction == _get_risk_label(calibrated_score)
    IN  /\ Quantified(r, abstain)
        /\ UNCHANGED raised
        /\ breaker' = record_success(breaker)
        /\ resp' = [resp EXCEPT ![r] =
                      [set |-> TRUE, prediction |-> prediction,
                       verdict |-> _get_verdict(prediction),
                       calibrated_score |-> calibrated_score,
                       abstain |-> abstain]]
        /\ outcome' = [outcome EXCEPT ![r] = "response"]
        /\ trace' = [trace EXCEPT ![r] =
                        @ \o AfterEnsemble \o <<"record_success">>]
        /\ pc' = [pc EXCEPT ![r] = "done"]

Respond(r, calibrated_score, abstain) ==
    LET prediction == IF abstain THEN "HUMAN_REVIEW"
                      ELSE _get_risk_label(calibrated_score)
    IN  /\ Quantified(r, abstain)
        /\ UNCHANGED raised
        /\ breaker' = record_success(breaker)
        /\ resp' = [resp EXCEPT ![r] =
                      [set |-> TRUE, prediction |-> prediction,
                       verdict |-> _get_verdict(prediction),
                       calibrated_score |-> calibrated_score,
                       abstain |-> abstain]]
        /\ outcome' = [outcome EXCEPT ![r] = "response"]
        /\ trace' = [trace EXCEPT ![r] =
                        @ \o AfterEnsemble \o <<"record_success">>]
        /\ pc' = [pc EXCEPT ![r] = "done"]

\* ensemble.predict returned in time: lines 182-287.  The uncertainty
\* stage may abstain or not; a collaborator may raise
EnsembleReturned(r) ==
    /\ pc[r] = "ens_wait"
    /\ worker[r] = "done"
    /\ \/ ClassifierRaised(r)
       \/ \E abstain \in BOOLEAN : RegistryRaised(r, abstain)
       \/ \E calibrated_score \in CalibratedScores, abstain \in BOOLEAN :
              Respond(r, calibrated_score, abstain)
    /\ UNCHANGED <<now, streak, last_call, gateVars, text, worker, future,
                   dq_result, ensembleVars, feedbackVars, callVars, threadVars, sharedVars>>

ServiceTick == Tick /\ UNCHANGED <<gateVars, requestVars, ensembleVars, feedbackVars, callVars, threadVars, sharedVars>>

(***************************************************************************)
(* ml/core/inference/adaptive_ensemble.py: AdaptiveEnsemble weights        *)
(*                                                                         *)
(* Weights are exact fractions [num, den] in lowest terms; the floats of   *)
(* the code differ from them by rounding errors far below 1e-6.            *)
(***************************************************************************)
RECURSIVE GCD(_, _)
GCD(a, b) == IF b = 0 THEN a ELSE GCD(b, a % b)

Frac(n, d) == LET g == GCD(n, d) IN [num |-> n \div g, den |-> d \div g]

FAdd(x, y) ==
    LET g == GCD(x.den, y.den) IN
    Frac(x.num * (y.den \div g) + y.num * (x.den \div g), (x.den \div g) * y.den)

FSub(x, y) == FAdd(x, [num |-> 0 - y.num, den |-> y.den])

FMul(x, y) ==
    LET a == Frac(x.num, y.den)
        b == Frac(y.num, x.den)
    IN  [num |-> a.num * b.num, den |-> a.den * b.den]

FDiv(x, y) == FMul(x, [num |-> y.den, den |-> y.num])

FLess(x, y) == FSub(x, y).num < 0

FMax(x, y) == IF FLess(x, y) THEN y ELSE x
FMin(x, y) == IF FLess(x, y) THEN x ELSE y

Zero == [num |-> 0, den |-> 1]
One == [num |-> 1, den |-> 1]

ModelNames == {"transformer", "linear", "rules", "semantic"}

BASE_WEIGHTS ==
    [m \in ModelNames |->
        CASE m = "transformer" -> Frac(40, 100)
          [] m = "linear" -> Frac(25, 100)
          [] m = "rules" -> Frac(20, 100)
          [] m = "semantic" -> Frac(15, 100)]

RECURSIVE FSum(_, _)
FSum(f, S) ==
    IF S = {} THEN Zero
    ELSE LET m == CHOOSE x \in S : TRUE IN FAdd(f[m], FSum(f, S \ {m}))

RECURSIVE SeqSum(_)
SeqSum(q) == IF q = <<>> THEN 0 ELSE Head(q) + SeqSum(Tail(q))

\* q[-n:]
LastN(q, n) == IF Len(q) <= n THEN q ELSE SubSeq(q, Len(q) - n + 1, Len(q))

_initialize_weights ==
    [m \in ModelNames |->
        [base_weight |-> BASE_WEIGHTS[m], current_weight |-> BASE_WEIGHTS[m],
         accuracy_history |-> <<>>]]

CurrentWeights(aw) == [m \in ModelNames |-> aw[m].current_weight]

_get_current_weights(aw) ==
    LET total == FSum(CurrentWeights(aw), ModelNames) IN
    IF FLess(Zero, total)
    THEN [m \in ModelNames |-> FDiv(aw[m].current_weight, total)]
    ELSE CurrentWeights(aw)

\* the weight _update_weights assigns to a model before renormalizing
NewWeight(w) ==
    IF Len(w.accuracy_history) < 5 THEN w.current_weight
    ELSE LET recent == LastN(w.accuracy_history, 20)
             recent_accuracy == Frac(SeqSum(recent), Len(recent))
             adjustment == FMul(FSub(recent_accuracy, Frac(1, 2)), Frac(1, 10))
             new_weight == FMul(w.base_weight, FAdd(One, adjustment))
         IN  FMax(Frac(5, 100), FMin(Frac(6, 10), new_weight))

_update_weights_Partial(aw) ==
    LET raw == [m \in ModelNames |-> NewWeight(aw[m])]
        fresh == {m \in ModelNames : Len(aw[m].accuracy_history) >= 5}
        total == FSum(raw, fresh)
    IN  [m \in ModelNames |->
            [aw[m] EXCEPT !.current_weight =
                IF m \in fresh THEN FDiv(raw[m], total) ELSE raw[m]]]

_update_weights(aw) ==
    LET raw == [m \in ModelNames |-> NewWeight(aw[m])]
        total == FSum(raw, ModelNames)
    IN  [m \in ModelNames |->
            [aw[m] EXCEPT !.current_weight =
                IF FLess(Zero, total) THEN FDiv(raw[m], total) ELSE raw[m]]]

\* record_feedback up to the length test: the accuracy histories
Recorded(aw, model_signals, actual_label) ==
    [m \in ModelNames |->
        IF m \notin DOMAIN model_signals THEN aw[m]
        ELSE LET prediction_correct ==
                     (model_signals[m] > 500) = (actual_label = 1)
                 accuracy == IF prediction_correct THEN 1 ELSE 0
             IN  [aw[m] EXCEPT !.accuracy_history =
                                   LastN(Append(@, accuracy), 100)]]

\* the feedback calls: model_signals with scores in 1/1000, and actual_label
FeedbackInputs ==
    {[model_signals |->
         [m \in ModelNames |->
             CASE m = "transformer" -> 800 [] m = "linear" -> 200
               [] m = "rules" -> 800 [] m = "semantic" -> 300],
      actual_label |-> 1],
     [model_signals |-> [m \in {"transformer", "unknown"} |-> 800],
      actual_label |-> 0]}

EnsembleInit ==
    /\ adaptive_weights = _initialize_weights
    /\ feedback_history = 0
    /\ updates = 0

record_feedback ==
    /\ feedback_history < MaxFeedback
    /\ \E fb \in FeedbackInputs :
         LET aw == Recorded(adaptive_weights, fb.model_signals, fb.actual_label) IN
         /\ feedback_history + 1 >= 10 => updates < MaxUpdates
         /\ feedback_history' = feedback_history + 1
         /\ IF feedback_history + 1 >= 10
            THEN /\ adaptive_weights' = _update_weights(aw)
                 /\ updates' = updates + 1
            ELSE /\ adaptive_weights' = aw
                 /\ UNCHANGED updates

UpdateWeights ==
    /\ updates < MaxUpdates
    /\ adaptive_weights' = _update_weights(adaptive_weights)
    /\ updates' = updates + 1
    /\ UNCHANGED feedback_history

reset_weights ==
    /\ adaptive_weights' = _initialize_weights
    /\ feedback_history' = 0
    /\ updates' = 0

(***************************************************************************)
(* ml/core/feedback/learning.py: FeedbackLoop                              *)
(*                                                                         *)
(* The history cap and the period of the threshold-suggestion analysis    *)
(* are scaled down together: in the code the cap (10000) is a multiple of  *)
(* the period (50), and so it is here.  Only whether the analysis runs is  *)
(* modelled; its suggestions are read by no operation modelled here.       *)
(***************************************************************************)
\* FeedbackLoop.MAX_HISTORY (10000), scaled down
MaxHistory == 4
\* the period of _analyze_and_suggest (50), scaled down
AnalysisEvery == 2
\* submit_correction calls with arbitrary arguments
MaxCorrections == 2
\* submit_correction calls with corrections of every feedback type
MaxMixed == 6
\* submit_correction calls in a long run of corrections
MaxSubmissions == 11

\* domain=None
NoDomain == "<None>"

PerformanceMetrics ==
    [total_predictions |-> 0, correct_predictions |-> 0,
     false_positives |-> 0, false_negatives |-> 0, overrides |-> 0]

\* submit_correction, lines 163-170, with the safe labels tested first
FeedbackType_SafeFirst(original_prediction, corrected_label) ==
    IF corrected_label \in {"NO_RISK", "LOW_RISK", "REAL"}
    THEN "FALSE_POSITIVE"
    ELSE IF original_prediction = corrected_label THEN "CORRECT"
    ELSE IF corrected_label \in {"HIGH_RISK", "FAKE"} THEN "FALSE_NEGATIVE"
    ELSE "OVERRIDE"

\* submit_correction, lines 163-170
FeedbackType(original_prediction, corrected_label) ==
    IF original_prediction = corrected_label THEN "CORRECT"
    ELSE IF corrected_label \in {"NO_RISK", "LOW_RISK", "REAL"}
    THEN "FALSE_POSITIVE"
    ELSE IF corrected_label \in {"HIGH_RISK", "FAKE"} THEN "FALSE_NEGATIVE"
    ELSE "OVERRIDE"

\* record.domain or "general"
DomainOf(record) ==
    IF record.domain \in {NoDomain, ""} THEN "general" ELSE record.domain

\* _update_metrics without the OVERRIDE branch (lines 124-126)
Counted_NoOverride(m, ft) ==
    [total_predictions |-> m.total_predictions + 1,
     correct_predictions |->
        m.correct_predictions + (IF ft = "CORRECT" THEN 1 ELSE 0),
     false_positives |->
        m.false_positives + (IF ft = "FALSE_POSITIVE" THEN 1 ELSE 0),
     false_negatives |->
        m.false_negatives + (IF ft = "FALSE_NEGATIVE" THEN 1 ELSE 0),
     overrides |-> m.overrides]

\* one PerformanceMetrics after _update_metrics counted a record of type ft
Counted(m, ft) ==
    [total_predictions |-> m.total_predictions + 1,
     correct_predictions |->
        m.correct_predictions + (IF ft = "CORRECT" THEN 1 ELSE 0),
     false_positives |->
        m.false_positives + (IF ft = "FALSE_POSITIVE" THEN 1 ELSE 0),
     false_negatives |->
        m.false_negatives + (IF ft = "FALSE_NEGATIVE" THEN 1 ELSE 0),
     overrides |-> m.overrides + (IF ft = "OVERRIDE" THEN 1 ELSE 0)]

\* _update_metrics: the overall metrics and the metrics of the domain
\* (submit_feedback passes no model_signals: the per-model loop is empty)
_update_metrics(overall, by_domain, record) ==
    LET domain == DomainOf(record)
        present == [d \in DOMAIN by_domain \cup {domain} |->
                       IF d \in DOMAIN by_domain THEN by_domain[d]
                       ELSE PerformanceMetrics]
    IN  [overall |-> Counted(overall, record.feedback_type),
         by_domain |-> [present EXCEPT
                          ![domain] = Counted(@, record.feedback_type)]]

\* record_feedback, lines 94-97, keeping the first MAX_HISTORY records
Stored_KeepOldest(records, record) ==
    LET appended == Append(records, record) IN
    IF Len(appended) > MaxHistory
    THEN SubSeq(appended, 1, MaxHistory)
    ELSE appended

\* record_feedback, lines 94-97: feedback_records after the append
Stored(records, record) ==
    LET appended == Append(records, record) IN
    IF Len(appended) > MaxHistory
    THEN SubSeq(appended, Len(appended) - MaxHistory + 1, Len(appended))
    ELSE appended

\* record_feedback, lines 101-102: whether _analyze_and_suggest runs, given
\* feedback_records after the append
analysis_due(records) == Len(records) % AnalysisEvery = 0

FeedbackInit ==
    /\ feedback_records = <<>>
    /\ metrics_by_domain = <<>>
    /\ overall_metrics = PerformanceMetrics
    /\ submitted = 0
    /\ fb_last = NoCall

\* the arguments of a correction
Correction(original_prediction, corrected_label, domain) ==
    [original_prediction |-> original_prediction,
     corrected_label |-> corrected_label, domain |-> domain]

AllCorrections ==
    {Correction(o, c, d) :
        o \in {"NO_RISK", "MEDIUM_RISK", "HIGH_RISK"},
        c \in {"NO_RISK", "LOW_RISK", "REAL", "MEDIUM_RISK", "HIGH_RISK",
               "FAKE", "HUMAN_REVIEW"},
        d \in {NoDomain, "general", "political"}}

SomeCorrections ==
    {Correction("HIGH_RISK", "NO_RISK", NoDomain),
     Correction("HIGH_RISK", "HIGH_RISK", "political")}

\* FeedbackLoop.submit_correction(scan_id, c.original_prediction, score,
\* c.corrected_label, domain=c.domain), record_feedback included; the scan
\* ids count the submissions
submit_correction(c) ==
    LET record == [scan_id |-> submitted + 1,
                   original_prediction |-> c.original_prediction,
                   corrected_label |-> c.corrected_label,
                   feedback_type |-> FeedbackType(c.original_prediction,
                                                  c.corrected_label),
                   domain |-> c.domain]
        metrics == _update_metrics(overall_metrics, metrics_by_domain, record)
    IN  /\ feedback_records' = Stored(feedback_records, record)
        /\ overall_metrics' = metrics.overall
        /\ metrics_by_domain' = metrics.by_domain
        /\ submitted' = submitted + 1
        /\ fb_last' = [called |-> TRUE, record |-> record,
                       before |-> metrics_by_domain,
                       analysed |->
                          analysis_due(Stored(feedback_records, record))]

\* GovernmentMLService.submit_feedback: the correction goes to the
\* feedback loop and nowhere else
submit_feedback(c) ==
    /\ submit_correction(c)
    /\ UNCHANGED <<breakerVars, gateVars, requestVars, ensembleVars,
                   callVars, threadVars, sharedVars>>

SubmitAny ==
    /\ submitted < MaxCorrections
    /\ \E c \in AllCorrections : submit_feedback(c)

SubmitSome ==
    /\ submitted < MaxSubmissions
    /\ \E c \in SomeCorrections : submit_feedback(c)

\* one correction of each feedback type, over two domains
MixedCorrections ==
    {Correction("HIGH_RISK", "HIGH_RISK", NoDomain),
     Correction("HIGH_RISK", "NO_RISK", "political"),
     Correction("NO_RISK", "FAKE", "political"),
     Correction("NO_RISK", "HUMAN_REVIEW", "general")}

SubmitMixed ==
    /\ submitted < MaxMixed
    /\ \E c \in MixedCorrections : submit_feedback(c)

(***************************************************************************)
(* ml/core/confidence/thresholds.py: ConfidenceManager                     *)
(*                                                                         *)
(* Scores, uncertainties and agreements are in 1/10000, adjusted scores    *)
(* and score adjustments in 1/100000, uncertainty weights in 1/10.         *)
(***************************************************************************)
DEFAULT_THRESHOLDS ==
    [no_risk_max |-> 1500, low_risk_max |-> 3500, medium_risk_max |-> 6500,
     high_risk_min |-> 6500, uncertainty_abstain |-> 2500,
     agreement_min |-> 6000]

DomainThresholds(adjustment, weight, higher, caution) ==
    [score_adjustment |-> adjustment, uncertainty_weight |-> weight,
     require_higher_agreement |-> higher, extra_caution |-> caution]

DOMAIN_CONFIGS ==
    [d \in {"political", "defamation", "misinformation", "impersonation",
            "general"} |->
        CASE d = "political" -> DomainThresholds(-10000, 15, TRUE, TRUE)
          [] d = "defamation" -> DomainThresholds(-5000, 13, TRUE, TRUE)
          [] d = "misinformation" -> DomainThresholds(0, 12, FALSE, FALSE)
          [] d = "impersonation" -> DomainThresholds(5000, 10, FALSE, FALSE)
          [] d = "general" -> DomainThresholds(0, 10, FALSE, FALSE)]

\* DOMAIN_CONFIGS.get(domain or "general", DOMAIN_CONFIGS["general"])
get_domain_config(domain) ==
    LET key == IF domain \in {NoDomain, ""} THEN "general" ELSE domain IN
    IF key \in DOMAIN DOMAIN_CONFIGS
    THEN DOMAIN_CONFIGS[key] ELSE DOMAIN_CONFIGS["general"]

compute_adjusted_score(raw_score, domain) ==
    LET domain_config == get_domain_config(domain)
        adjustment ==
            IF domain_config.extra_caution /\ raw_score > 5000
            THEN domain_config.score_adjustment - (raw_score - 5000)
            ELSE domain_config.score_adjustment
    IN  [adjusted_score |-> Max(0, Min(100000, raw_score * 10 + adjustment)),
         adjustment |-> adjustment]

\* should_abstain with the same agreement threshold for every domain
should_abstain_OneThreshold(uncertainty, agreement, domain) ==
    LET domain_config == get_domain_config(domain) IN
    IF uncertainty * domain_config.uncertainty_weight
          > DEFAULT_THRESHOLDS.uncertainty_abstain * 10
    THEN [abstain |-> TRUE, reason |-> "uncertainty_high"]
    ELSE IF agreement < DEFAULT_THRESHOLDS.agreement_min
    THEN [abstain |-> TRUE, reason |-> "agreement_low"]
    ELSE IF domain_config.extra_caution /\ uncertainty > 1500
    THEN [abstain |-> TRUE, reason |-> "domain_caution"]
    ELSE [abstain |-> FALSE, reason |-> "none"]

should_abstain(uncertainty, agreement, domain) ==
    LET domain_config == get_domain_config(domain)
        weighted_uncertainty == uncertainty * domain_config.uncertainty_weight
        agreement_threshold ==
            DEFAULT_THRESHOLDS.agreement_min
            + (IF domain_config.require_higher_agreement THEN 1000 ELSE 0)
    IN  IF weighted_uncertainty > DEFAULT_THRESHOLDS.uncertainty_abstain * 10
        THEN [abstain |-> TRUE, reason |-> "uncertainty_high"]
        ELSE IF agreement < agreement_threshold
        THEN [abstain |-> TRUE, reason |-> "agreement_low"]
        ELSE IF domain_config.extra_caution /\ uncertainty > 1500
        THEN [abstain |-> TRUE, reason |-> "domain_caution"]
        ELSE [abstain |-> FALSE, reason |-> "none"]

get_risk_level(score) ==
    IF score < DEFAULT_THRESHOLDS.no_risk_max * 10 THEN "NO_RISK"
    ELSE IF score < DEFAULT_THRESHOLDS.low_risk_max * 10 THEN "LOW_RISK"
    ELSE IF score < DEFAULT_THRESHOLDS.medium_risk_max * 10
    THEN "MEDIUM_RISK"
    ELSE "HIGH_RISK"

get_verdict(risk_level, abstain) ==
    IF abstain THEN "ABSTAIN"
    ELSE IF risk_level = "HIGH_RISK" THEN "FAKE"
    ELSE IF risk_level = "NO_RISK" THEN "REAL"
    ELSE "UNVERIFIED"

Abs(x) == IF x < 0 THEN 0 - x ELSE x

\* round(x, 4) of a value given in 1/1000000: the values in 1/10000 it can
\* give (a value halfway between two of them goes to either, depending on
\* the binary representation)
Round4(x) ==
    IF x % 100 < 50 THEN {x \div 100}
    ELSE IF x % 100 > 50 THEN {x \div 100 + 1}
    ELSE {x \div 100, x \div 100 + 1}

\* the values _compute_decision_confidence can return, in 1/10000
_compute_decision_confidence(score, uncertainty, agreement, abstaining) ==
    IF abstaining THEN {5000}
    ELSE
        LET score_confidence == 100000 - Abs(50000 - score)
            uncertainty_factor == 10000 - uncertainty
            confidence == score_confidence * 3 + uncertainty_factor * 30
                          + agreement * 40
        IN  Round4(Max(0, Min(1000000, confidence)))

\* make_decision with the risk level taken from the score also on abstention
make_decision_KeepLevel(calibrated_score, uncertainty, agreement, domain) ==
    LET adjusted == compute_adjusted_score(calibrated_score, domain)
        abstain == should_abstain(uncertainty, agreement, domain)
        risk_level == get_risk_level(adjusted.adjusted_score)
    IN  {[risk_level |-> risk_level,
          verdict |-> get_verdict(risk_level, abstain.abstain),
          confidence |-> c,
          should_abstain |-> abstain.abstain,
          abstain_reason |-> abstain.reason,
          threshold_used |-> adjusted.adjusted_score,
          domain_adjustment |-> adjusted.adjustment] :
         c \in _compute_decision_confidence(adjusted.adjusted_score,
                  uncertainty, agreement, abstain.abstain)}

\* the DecisionResults make_decision can return
make_decision(calibrated_score, uncertainty, agreement, domain) ==
    LET adjusted == compute_adjusted_score(calibrated_score, domain)
        abstain == should_abstain(uncertainty, agreement, domain)
        risk_level == IF abstain.abstain THEN "HUMAN_REVIEW"
                      ELSE get_risk_level(adjusted.adjusted_score)
    IN  {[risk_level |-> risk_level,
          verdict |-> get_verdict(risk_level, abstain.abstain),
          confidence |-> c,
          should_abstain |-> abstain.abstain,
          abstain_reason |-> abstain.reason,
          threshold_used |-> adjusted.adjusted_score,
          domain_adjustment |-> adjusted.adjustment] :
         c \in _compute_decision_confidence(adjusted.adjusted_score,
                  uncertainty, agreement, abstain.abstain)}

\* _record_decision: decision_history after the append
_record_decision(history, result, domain) ==
    LastN(Append(history, [risk_level |-> result.risk_level,
                           verdict |-> result.verdict,
                           confidence |-> result.confidence,
                           abstained |-> result.should_abstain,
                           domain |-> domain]), 1000)

CallInit ==
    /\ pure_arg = [pending |-> FALSE]
    /\ pure_ret = NoCall
    /\ decision_history = <<>>

DecisionScores ==
    {0, 500, 1499, 1500, 2500, 3499, 3500, 4500, 5000, 6499, 6500, 7000,
     7222, 7223, 7500, 7778, 10000}
DecisionUncertainties ==
    {0, 500, 1500, 1501, 1666, 1667, 1923, 1924, 2083, 2084, 2500, 2501,
     3000}
DecisionAgreements == {3000, 5999, 6000, 6999, 7000, 9500}
DecisionDomains ==
    {NoDomain, "general", "political", "defamation", "misinformation",
     "impersonation", "sports"}

DecisionInit ==
    /\ pure_arg \in
         [pending : {TRUE}, fn : {"make_decision"},
          calibrated_score : DecisionScores,
          uncertainty : DecisionUncertainties,
          agreement : DecisionAgreements, domain : DecisionDomains]
         \cup
         [pending : {TRUE}, fn : {"should_abstain"},
          calibrated_score : {0},
          uncertainty : DecisionUncertainties,
          agreement : DecisionAgreements, domain : DecisionDomains]
    /\ pure_ret = NoCall
    /\ decision_history = <<>>

\* ConfidenceManager.should_abstain(uncertainty, agreement, domain)
ShouldAbstain ==
    /\ pure_arg.pending /\ pure_arg.fn = "should_abstain"
    /\ pure_ret' = [called |-> TRUE, arg |-> pure_arg,
                    result |-> should_abstain(pure_arg.uncertainty,
                                  pure_arg.agreement, pure_arg.domain)]
    /\ pure_arg' = [pending |-> FALSE]
    /\ UNCHANGED decision_history

\* ConfidenceManager.make_decision(calibrated_score, uncertainty, agreement,
\* domain)
MakeDecision ==
    /\ pure_arg.pending /\ pure_arg.fn = "make_decision"
    /\ \E result \in make_decision(pure_arg.calibrated_score,
                        pure_arg.uncertainty, pure_arg.agreement,
                        pure_arg.domain) :
         /\ pure_ret' = [called |-> TRUE, arg |-> pure_arg,
                         result |-> result]
         /\ decision_history' =
                _record_decision(decision_history, result, pure_arg.domain)
    /\ pure_arg' = [pending |-> FALSE]

(***************************************************************************)
(* ml/core/uncertainty/quantifier.py: UncertaintyQuantifier                *)
(*                                                                         *)
(* Values are in 1/10000.  The epistemic uncertainty is the standard       *)
(* deviation of ten seeded noise samples (monte_carlo_dropout): it is an   *)
(* input of the model.  Square roots are rounded down.                     *)
(***************************************************************************)
RECURSIVE SqrtBetween(_, _, _)
SqrtBetween(n, lo, hi) ==
    IF lo >= hi THEN lo
    ELSE LET mid == (lo + hi + 1) \div 2 IN
         IF mid * mid <= n THEN SqrtBetween(n, mid, hi)
         ELSE SqrtBetween(n, lo, mid - 1)

\* np.sqrt of a square of values in 1/10000
Sqrt(n) == SqrtBetween(n, 0, 20000)

compute_aleatoric_uncertainty(confidence) ==
    IF confidence >= 9500 THEN 200
    ELSE IF confidence >= 8500 THEN 500
    ELSE IF confidence >= 7000 THEN 1000
    ELSE 1500 + ((7000 - confidence) * 3) \div 10

RECURSIVE SumOver(_, _)
SumOver(f, S) ==
    IF S = {} THEN 0
    ELSE LET m == CHOOSE m \in S : TRUE IN f[m] + SumOver(f, S \ {m})

\* np.std of the ensemble scores
ensemble_disagreement(scores) ==
    IF Cardinality(DOMAIN scores) < 2 THEN 0
    ELSE LET n == Cardinality(DOMAIN scores)
             mean == SumOver(scores, DOMAIN scores) \div n
             sq == [m \in DOMAIN scores |->
                       (scores[m] - mean) * (scores[m] - mean)]
         IN  Sqrt(SumOver(sq, DOMAIN scores) \div n)

\* UncertaintyQuantifier.should_abstain without the agreement test
quantifier_should_abstain_NoAgreement(uncertainty, confidence, agreement) ==
    IF uncertainty > 2500
    THEN [abstain |-> TRUE, reason |-> "High uncertainty"]
    ELSE IF confidence < 6000
    THEN [abstain |-> TRUE, reason |-> "Low confidence"]
    ELSE [abstain |-> FALSE, reason |-> "none"]

\* UncertaintyQuantifier.should_abstain, abstain_threshold = 0.25
quantifier_should_abstain(uncertainty, confidence, agreement) ==
    IF uncertainty > 2500
    THEN [abstain |-> TRUE, reason |-> "High uncertainty"]
    ELSE IF confidence < 6000
    THEN [abstain |-> TRUE, reason |-> "Low confidence"]
    ELSE IF agreement < 6000
    THEN [abstain |-> TRUE, reason |-> "Low model agreement"]
    ELSE [abstain |-> FALSE, reason |-> "none"]

MaxOf(f) == CHOOSE x \in {f[m] : m \in DOMAIN f} :
                \A y \in {f[m] : m \in DOMAIN f} : y <= x
MinOf(f) == CHOOSE x \in {f[m] : m \in DOMAIN f} :
                \A y \in {f[m] : m \in DOMAIN f} : x <= y

\* quantify with the given outcome of monte_carlo_dropout; ensemble_scores
\* None or {} is the function with the empty domain
quantify(raw_score, confidence, ensemble_scores, epistemic) ==
    LET aleatoric == compute_aleatoric_uncertainty(confidence)
        combined == Min(Sqrt(epistemic * epistemic + aleatoric * aleatoric),
                        10000)
        total_uncertainty ==
            IF DOMAIN ensemble_scores # {}
            THEN (combined + ensemble_disagreement(ensemble_scores)) \div 2
            ELSE combined
        agreement ==
            IF Cardinality(DOMAIN ensemble_scores) > 1
            THEN 10000 - (MaxOf(ensemble_scores) - MinOf(ensemble_scores))
            ELSE 10000 - total_uncertainty
        abstain == quantifier_should_abstain(total_uncertainty, confidence,
                                             agreement)
    IN  [prediction |-> IF abstain.abstain THEN "HUMAN_REVIEW"
                        ELSE _get_risk_label(raw_score),
         confidence |-> confidence,
         uncertainty |-> total_uncertainty,
         epistemic_uncertainty |-> epistemic,
         aleatoric_uncertainty |-> aleatoric,
         abstain |-> abstain.abstain,
         abstain_reason |-> abstain.reason,
         agreement |-> agreement]

QuantifyScores == {1000, 3000, 5000, 8000}
QuantifyConfidences == {5990, 6000, 7000, 8500, 9500}
Epistemics == {0, 1000, 1800, 2300, 2500}
EnsembleScores ==
    {<<>>, [m \in {"transformer"} |-> 5000]}
    \cup {[m \in {"transformer", "linear"} |->
             IF m = "transformer" THEN x ELSE y] :
          x \in {1000, 5000}, y \in {1000, 4999, 5000, 5001, 9000}}

QuantifyInit ==
    /\ pure_arg \in [pending : {TRUE}, fn : {"quantify"},
                     raw_score : QuantifyScores,
                     confidence : QuantifyConfidences,
                     ensemble_scores : EnsembleScores,
                     epistemic : Epistemics]
    /\ pure_ret = NoCall
    /\ decision_history = <<>>

\* UncertaintyQuantifier.quantify(raw_score, confidence, ensemble_scores)
Quantify ==
    /\ pure_arg.pending /\ pure_arg.fn = "quantify"
    /\ pure_ret' = [called |-> TRUE, arg |-> pure_arg,
                    result |-> quantify(pure_arg.raw_score,
                                  pure_arg.confidence,
                                  pure_arg.ensemble_scores,
                                  pure_arg.epistemic)]
    /\ pure_arg' = [pending |-> FALSE]
    /\ UNCHANGED decision_history

(***************************************************************************)
(* ml/core/calibration/calibrator.py: ModelCalibrator                      *)
(*                                                                         *)
(* Scores are in 1/10000, which is also the rounding of the result; the    *)
(* logistic function is computed to within one such unit.  The             *)
(* calibrator is the one the service constructs: model_type                *)
(* risk_classifier, isotonic regression never fitted.                      *)
(***************************************************************************)
DEFAULT_CALIBRATION_PARAMS == [a |-> -12000, b |-> 1500, temperature |-> 13]

\* the sum of the series of e^r from the term of index k on, 0 <= r < ln 2
RECURSIVE ExpSeries(_, _, _)
ExpSeries(r, k, term) ==
    IF term = 0 THEN 0
    ELSE term + ExpSeries(r, k + 1, (term * r) \div ((k + 1) * 10000))

RECURSIVE Pow2(_)
Pow2(n) == IF n = 0 THEN 1 ELSE 2 * Pow2(n - 1)

\* e^y for 0 <= y < 10
Exp(y) == Pow2(y \div 6931) * ExpSeries(y % 6931, 0, 10000)

\* log(0)
NegInf == -100000000

\* scipy.special.expit
RECURSIVE expit(_)
expit(x) ==
    IF x <= -100000 THEN 0
    ELSE IF x >= 100000 THEN 10000
    ELSE IF x > 0 THEN 10000 - expit(0 - x)
    ELSE (100000000 + (10000 + Exp(0 - x)) \div 2) \div (10000 + Exp(0 - x))

\* np.log(score / (1 - score + 1e-10)) on the grid of raw scores
LogOdds(s) ==
    CASE s = 0 -> NegInf
          [] s = 500 -> -29444
          [] s = 1000 -> -21972
          [] s = 1500 -> -17346
          [] s = 2000 -> -13863
          [] s = 2500 -> -10986
          [] s = 3000 -> -8473
          [] s = 3500 -> -6190
          [] s = 4000 -> -4055
          [] s = 4500 -> -2007
          [] s = 5000 -> 0
          [] s = 5500 -> 2007
          [] s = 6000 -> 4055
          [] s = 6500 -> 6190
          [] s = 7000 -> 8473
          [] s = 7500 -> 10986
          [] s = 8000 -> 13863
          [] s = 8500 -> 17346
          [] s = 9000 -> 21972
          [] s = 9500 -> 29444
          [] s = 10000 -> 230259

\* np.clip(x, 0.0, 1.0)
Clip(x) == Max(0, Min(10000, x))

\* PlattScaling.calibrate without the logistic function
platt_calibrate_Linear(score) ==
    (DEFAULT_CALIBRATION_PARAMS.a * score) \div 10000
    + DEFAULT_CALIBRATION_PARAMS.b

\* PlattScaling.calibrate
platt_calibrate(score) ==
    Clip(expit((DEFAULT_CALIBRATION_PARAMS.a * score) \div 10000
               + DEFAULT_CALIBRATION_PARAMS.b))

\* IsotonicCalibrator.calibrate, not fitted
isotonic_calibrate(score) == score

\* TemperatureScaling.calibrate
temperature_calibrate(score) ==
    Clip(expit((LogOdds(score) * 10)
               \div DEFAULT_CALIBRATION_PARAMS.temperature))

\* ModelCalibrator.calibrate
calibrate(raw_score, method) ==
    LET calibrated ==
            IF method = "platt" THEN platt_calibrate(raw_score)
            ELSE IF method = "isotonic" THEN isotonic_calibrate(raw_score)
            ELSE IF method = "temperature"
            THEN temperature_calibrate(raw_score)
            ELSE platt_calibrate(raw_score)
    IN  [raw_score |-> raw_score,
         calibrated_score |-> calibrated,
         calibration_method |-> method,
         ece |-> Abs(raw_score - calibrated) \div 10,
         brier_score |-> ((calibrated - 5000) * (calibrated - 5000))
                         \div 10000]

RawScores == {k * 500 : k \in 0..20}
Methods == {"platt", "isotonic", "temperature", "beta"}

CalibrateInit ==
    /\ pure_arg \in [pending : {TRUE}, fn : {"calibrate"},
                     raw_score : RawScores, method : Methods]
    /\ pure_ret = NoCall
    /\ decision_history = <<>>

\* ModelCalibrator.calibrate(raw_score, method)
Calibrate ==
    /\ pure_arg.pending /\ pure_arg.fn = "calibrate"
    /\ pure_ret' = [called |-> TRUE, arg |-> pure_arg,
                    result |-> calibrate(pure_arg.raw_score,
                                         pure_arg.method)]
    /\ pure_arg' = [pending |-> FALSE]
    /\ UNCHANGED decision_history

(***************************************************************************)
(* ml/core/inference/ensemble.py: EnsembleInference, the ensemble that     *)
(* evaluate_risk scores with (government_service.py:95 and 182-186)        *)
(*                                                                         *)
(* Signals are in 1/1000, raw_score and agreement in 1/10000.              *)
(***************************************************************************)
DEFAULT_WEIGHTS ==
    [m \in {"transformer", "linear", "rules"} |->
        CASE m = "transformer" -> Frac(45, 100)
          [] m = "linear" -> Frac(30, 100)
          [] m = "rules" -> Frac(25, 100)]

\* EnsembleInference.predict for a text whose models give these signals;
\* self.weights is DEFAULT_WEIGHTS, nothing assigns it after __init__
ensemble_predict(signals) ==
    LET weighted == [m \in DOMAIN signals |->
                        IF m \in DOMAIN DEFAULT_WEIGHTS
                        THEN (signals[m] * DEFAULT_WEIGHTS[m].num * 100)
                             \div DEFAULT_WEIGHTS[m].den
                        ELSE signals[m] * 33]
        scores == [m \in DOMAIN signals |-> signals[m] * 10]
    IN  [raw_score |-> (SumOver(weighted, DOMAIN signals) + 5) \div 10,
         agreement |-> Max(0, Min(10000,
                           10000 - ensemble_disagreement(scores))),
         signals |-> signals,
         weights_used |-> DEFAULT_WEIGHTS]

\* the signals of the three models for a text
EnsembleSignals ==
    {[m \in {"transformer", "linear", "rules"} |->
         CASE m = "transformer" -> 800 [] m = "linear" -> 200
           [] m = "rules" -> 100],
     [m \in {"transformer", "linear", "rules"} |-> 100]}

\* evaluate_risk scores a text: self.ensemble.predict(text), with the
\* adaptive weights of the service at that moment kept as history
EnsemblePredict ==
    /\ \E signals \in EnsembleSignals :
         pure_ret' = [called |-> TRUE,
                      arg |-> [fn |-> "predict", signals |-> signals],
                      result |-> ensemble_predict(signals),
                      adaptive |-> _get_current_weights(adaptive_weights)]
    /\ UNCHANGED <<pure_arg, decision_history>>

(***************************************************************************)
(* Several threads inside evaluate_risk at once                            *)
(*                                                                         *)
(* A thread calls evaluate_risk, is admitted or rejected by                *)
(* _check_circuit_breaker (line 167), and if admitted ends with            *)
(* record_success (line 232) or record_failure (lines 282-287).  The       *)
(* stages in between do not touch the breaker.                             *)
(***************************************************************************)
NumThreads == 2

Threads == 1..NumThreads

ThreadInit ==
    /\ in_flight = [t \in Threads |-> FALSE]
    /\ fail_pc = [t \in Threads |-> "idle"]
    /\ fail_read = [t \in Threads |-> 0]

\* _check_circuit_breaker at the start of evaluate_risk
Enter(t) ==
    /\ ~in_flight[t]
    /\ CanExecute
    /\ in_flight' = [in_flight EXCEPT ![t] = can_execute(breaker, now).ret]

\* the request of thread t ends with a response
Succeed(t) ==
    /\ in_flight[t]
    /\ RecordSuccess
    /\ in_flight' = [in_flight EXCEPT ![t] = FALSE]

\* the request of thread t ends in an except clause
FailRequest(t) ==
    /\ in_flight[t]
    /\ RecordFailure
    /\ in_flight' = [in_flight EXCEPT ![t] = FALSE]

(***************************************************************************)
(* record_failure called from several threads at once                      *)
(*                                                                         *)
(* CircuitBreaker takes no lock.  record_failure (config.py:28-32) is four *)
(* steps, and another thread may run between any two of them:              *)
(*   line 29  load self.failure_count                                      *)
(*   line 29  store the loaded value plus one                              *)
(*   line 30  self.last_failure_time = time.time()                         *)
(*   lines 31-32  compare self.failure_count with the threshold            *)
(* streak counts the record_failure calls that have returned.              *)
(***************************************************************************)
MaxRaceCalls == 6

\* line 29, the read of self.failure_count += 1
FailLoad(t) ==
    /\ in_flight[t] /\ fail_pc[t] = "idle"
    /\ fail_read' = [fail_read EXCEPT ![t] = breaker.failure_count]
    /\ fail_pc' = [fail_pc EXCEPT ![t] = "loaded"]
    /\ UNCHANGED <<breakerVars, in_flight>>

\* line 29, the write of self.failure_count += 1
FailStore(t) ==
    /\ fail_pc[t] = "loaded"
    /\ breaker' = [breaker EXCEPT !.failure_count = fail_read[t] + 1]
    /\ fail_pc' = [fail_pc EXCEPT ![t] = "stored"]
    /\ UNCHANGED <<now, streak, last_call, in_flight, fail_read>>

\* line 30
FailStamp(t) ==
    /\ fail_pc[t] = "stored"
    /\ breaker' = [breaker EXCEPT !.last_failure_time = now]
    /\ fail_pc' = [fail_pc EXCEPT ![t] = "stamped"]
    /\ UNCHANGED <<now, streak, last_call, in_flight, fail_read>>

\* lines 31-32, and the return from evaluate_risk
FailCheck(t) ==
    /\ fail_pc[t] = "stamped"
    /\ breaker' = [breaker EXCEPT !.is_open =
                      IF breaker.failure_count >= breaker.threshold
                      THEN TRUE ELSE breaker.is_open]
    /\ streak' = streak + 1
    /\ fail_pc' = [fail_pc EXCEPT ![t] = "idle"]
    /\ in_flight' = [in_flight EXCEPT ![t] = FALSE]
    /\ UNCHANGED <<now, last_call, fail_read>>

\* _check_circuit_breaker at the start of the next request of thread t
EnterAgain(t) ==
    /\ streak + Cardinality({u \in Threads : in_flight[u]}) < MaxRaceCalls
    /\ Enter(t)
    /\ UNCHANGED <<fail_pc, fail_read>>

(***************************************************************************)
(* ml/serving/service.py: MLService, next to GovernmentMLService           *)
(*                                                                         *)
(* Both modules import the one circuit_breaker object of ml/config.py      *)
(* (service.py:13, government_service.py:17): the variable breaker.  A     *)
(* request is taken as one step here; `stage` is how the stages after the  *)
(* validation of the text end.                                             *)
(***************************************************************************)
MaxServiceCalls == 7

Services == {"MLService", "GovernmentMLService"}
Stages == {"ok", "timeout", "error"}

\* MLService._validate_text: raises ValueError on an empty or blank text,
\* else returns the text cut to max_text_length
_validate_text(t) ==
    IF RStrip(LStrip(t.chars)) = <<>>
    THEN [raises |-> TRUE]
    ELSE [raises |-> FALSE,
          text |-> [t EXCEPT !.length = Min(t.length, max_text_length)]]

\* how a request admitted by the breaker ends, and what it does to the
\* breaker: the except clauses of classify_risk and of evaluate_risk
Ended(b, t, failure, stage) ==
    IF failure # "none"
    THEN [outcome |-> failure, brk |-> record_failure(b, t)]
    ELSE IF stage = "ok"
    THEN [outcome |-> "response", brk |-> record_success(b)]
    ELSE [outcome |-> IF stage = "timeout" THEN "TimeoutError"
                      ELSE "ServiceError",
          brk |-> record_failure(b, t)]

\* classify_risk with _validate_text called before the try block
classify_risk_ValidateFirst(b, t, txt, stage) ==
    LET ce == can_execute(b, t) IN
    IF ~ce.ret
    THEN [outcome |-> "CircuitBreakerOpenError", brk |-> ce.brk]
    ELSE IF _validate_text(txt).raises
    THEN [outcome |-> "ValueError", brk |-> ce.brk]
    ELSE Ended(ce.brk, t, "none", stage)

\* MLService.classify_risk (detect_defamation and recognize_entities have
\* the same shape)
classify_risk(b, t, txt, stage) ==
    LET ce == can_execute(b, t) IN
    IF ~ce.ret
    THEN [outcome |-> "CircuitBreakerOpenError", brk |-> ce.brk]
    ELSE Ended(ce.brk, t,
               IF _validate_text(txt).raises THEN "ServiceError" ELSE "none",
               stage)

\* GovernmentMLService.evaluate_risk as one step, dq being the result of
\* DataQualityGate.validate
evaluate_risk(b, t, dq, stage) ==
    LET ce == can_execute(b, t) IN
    IF ~ce.ret
    THEN [outcome |-> "CircuitBreakerOpenError", brk |-> ce.brk]
    ELSE Ended(ce.brk, t,
               IF ~dq.usable THEN "DataQualityError" ELSE "none", stage)

Blank == Text(<<" ">>, 1, 0, FALSE, FALSE, FALSE, 0, 1000, 0)
MLTexts == {Clean(<<"a">>), Blank}

SharedInit == svc_last = [called |-> FALSE, n |-> 0, failed_by |-> {}]

\* the history of a request of `service` that ended as `e`
Served(service, input_ok, e) ==
    /\ breaker' = e.brk
    /\ streak' = IF e.outcome = "response" THEN 0
                 ELSE IF e.outcome = "CircuitBreakerOpenError" THEN streak
                 ELSE (IF breaker.is_open THEN 0 ELSE streak) + 1
    /\ svc_last' =
          [called |-> TRUE, n |-> svc_last.n + 1, service |-> service,
           input_ok |-> input_ok, outcome |-> e.outcome,
           failed_by |->
              IF e.outcome = "response" THEN {}
              ELSE IF e.outcome = "CircuitBreakerOpenError"
              THEN svc_last.failed_by
              ELSE (IF breaker.is_open THEN {} ELSE svc_last.failed_by)
                   \cup {service}]
    /\ UNCHANGED <<now, last_call>>

ClassifyRisk ==
    /\ svc_last.n < MaxServiceCalls
    /\ \E txt \in MLTexts : \E stage \in Stages :
          Served("MLService", ~_validate_text(txt).raises,
                 classify_risk(breaker, now, txt, stage))
    /\ UNCHANGED gateVars

EvaluateRisk ==
    /\ svc_last.n < MaxServiceCalls
    /\ \E txt \in ServiceTexts : \E stage \in Stages :
          \E o \in validate(txt, seen_hashes, strict_mode) :
             LET e == evaluate_risk(breaker, now, o.result, stage) IN
             /\ Served("GovernmentMLService", o.result.usable, e)
             /\ IF e.outcome = "CircuitBreakerOpenError"
                THEN UNCHANGED gateVars
                ELSE DoValidate(txt, o) /\ UNCHANGED <<strict_mode, dq_arg>>

(***************************************************************************)
(* Specifications                                                          *)
(***************************************************************************)
Init ==
    /\ BreakerInit /\ GateInit /\ RequestInit /\ EnsembleInit
    /\ FeedbackInit /\ CallInit /\ ThreadInit /\ SharedInit

\* the service: requests through evaluate_risk
Next ==
    \/ \E r \in Requests : Begin(r)
    \/ \E r \in Requests : WorkerFinish(r)
    \/ \E r \in Requests : Deadline(r)
    \/ \E r \in Requests : Joined(r)
    \/ \E r \in Requests : GateReturned(r)
    \/ \E r \in Requests : EnsembleReturned(r)
    \/ ServiceTick

Spec == Init /\ [][Next]_vars

\* one CircuitBreaker called directly
BreakerNext ==
    /\ \/ Tick
       \/ RecordFailure
       \/ RecordSuccess
       \/ CanExecute
    /\ UNCHANGED <<gateVars, requestVars, ensembleVars, feedbackVars, callVars, threadVars, sharedVars>>

SpecBreaker == Init /\ [][BreakerNext]_vars

\* one DataQualityGate validating a stream of texts
GateInitAny ==
    /\ strict_mode \in BOOLEAN
    /\ seen_hashes = {}
    /\ dq_arg = [pending |-> FALSE]
    /\ dq_last = NoCall
    /\ validated = [h \in Forms |-> 0]
    /\ evicted = {}

GateNext ==
    /\ Validate
    /\ UNCHANGED <<breakerVars, requestVars, ensembleVars, feedbackVars, callVars, threadVars, sharedVars>>

InitGate ==
    /\ BreakerInit /\ GateInitAny /\ RequestInit /\ EnsembleInit
    /\ FeedbackInit /\ CallInit /\ ThreadInit /\ SharedInit

SpecGate == InitGate /\ [][GateNext]_vars

\* validate applied once to each text, on a fresh gate and on one that has
\* seen the text
ValidateInit ==
    /\ strict_mode \in BOOLEAN
    /\ \E t \in AllTexts :
         /\ dq_arg = [pending |-> TRUE, text |-> t]
         /\ seen_hashes \in {{}, {_compute_hash(t)}}
         /\ validated = [h \in Forms |->
                            IF h \in seen_hashes THEN 1 ELSE 0]
    /\ dq_last = NoCall
    /\ evicted = {}

ValidateNext ==
    /\ ValidatePending
    /\ UNCHANGED <<breakerVars, requestVars, ensembleVars, feedbackVars, callVars, threadVars, sharedVars>>

InitValidate ==
    /\ BreakerInit /\ ValidateInit /\ RequestInit /\ EnsembleInit
    /\ FeedbackInit /\ CallInit /\ ThreadInit /\ SharedInit

SpecValidate == InitValidate /\ [][ValidateNext]_vars

\* one AdaptiveEnsemble receiving feedback
EnsembleNext ==
    /\ \/ record_feedback
       \/ UpdateWeights
       \/ reset_weights
    /\ UNCHANGED <<breakerVars, gateVars, requestVars, feedbackVars, callVars, threadVars, sharedVars>>

SpecEnsemble == Init /\ [][EnsembleNext]_vars

\* corrections with arbitrary arguments submitted to the service
CorrectionNext == SubmitAny

SpecCorrection == Init /\ [][CorrectionNext]_vars

\* a long run of corrections submitted to the service
FeedbackNext == SubmitSome

SpecFeedback == Init /\ [][FeedbackNext]_vars

\* corrections of every feedback type, more of them than the history holds
MetricsNext == SubmitMixed

SpecMetrics == Init /\ [][MetricsNext]_vars

\* one call of ConfidenceManager.should_abstain or make_decision
InitDecision ==
    /\ BreakerInit /\ GateInit /\ RequestInit /\ EnsembleInit
    /\ FeedbackInit /\ DecisionInit /\ ThreadInit /\ SharedInit

DecisionNext ==
    /\ \/ ShouldAbstain
       \/ MakeDecision
    /\ UNCHANGED <<breakerVars, gateVars, requestVars, ensembleVars,
                   feedbackVars, threadVars, sharedVars>>

SpecDecision == InitDecision /\ [][DecisionNext]_vars

\* one call of UncertaintyQuantifier.quantify
InitQuantify ==
    /\ BreakerInit /\ GateInit /\ RequestInit /\ EnsembleInit
    /\ FeedbackInit /\ QuantifyInit /\ ThreadInit /\ SharedInit

QuantifyNext ==
    /\ Quantify
    /\ UNCHANGED <<breakerVars, gateVars, requestVars, ensembleVars,
                   feedbackVars, threadVars, sharedVars>>

SpecQuantify == InitQuantify /\ [][QuantifyNext]_vars

\* one call of ModelCalibrator.calibrate
InitCalibrate ==
    /\ BreakerInit /\ GateInit /\ RequestInit /\ EnsembleInit
    /\ FeedbackInit /\ CalibrateInit /\ ThreadInit /\ SharedInit

CalibrateNext ==
    /\ Calibrate
    /\ UNCHANGED <<breakerVars, gateVars, requestVars, ensembleVars,
                   feedbackVars, threadVars, sharedVars>>

SpecCalibrate == InitCalibrate /\ [][CalibrateNext]_vars

\* feedback reaching the adaptive ensemble and texts scored by the service
WeightsNext ==
    \/ /\ record_feedback
       /\ UNCHANGED <<breakerVars, gateVars, requestVars, feedbackVars,
                      callVars, threadVars, sharedVars>>
    \/ /\ EnsemblePredict
       /\ UNCHANGED <<breakerVars, gateVars, requestVars, ensembleVars,
                      feedbackVars, threadVars, sharedVars>>

SpecWeights == Init /\ [][WeightsNext]_vars

\* evaluate_risk called from several threads
ThreadsNext ==
    /\ \/ \E t \in Threads : Enter(t)
       \/ \E t \in Threads : Succeed(t)
       \/ \E t \in Threads : FailRequest(t)
       \/ Tick /\ UNCHANGED in_flight
    /\ UNCHANGED <<fail_pc, fail_read>>
    /\ UNCHANGED <<gateVars, requestVars, ensembleVars, feedbackVars,
                   callVars, sharedVars>>

SpecThreads == Init /\ [][ThreadsNext]_vars

\* requests of several threads that all fail, at one instant
RaceNext ==
    /\ \/ \E t \in Threads : EnterAgain(t)
       \/ \E t \in Threads : FailLoad(t)
       \/ \E t \in Threads : FailStore(t)
       \/ \E t \in Threads : FailStamp(t)
       \/ \E t \in Threads : FailCheck(t)
    /\ UNCHANGED <<gateVars, requestVars, ensembleVars, feedbackVars,
                   callVars, sharedVars>>

SpecRace == Init /\ [][RaceNext]_vars

\* requests to MLService and to GovernmentMLService, one after the other
SharedNext ==
    /\ \/ ClassifyRisk
       \/ EvaluateRisk
       \/ Tick /\ UNCHANGED <<gateVars, sharedVars>>
    /\ UNCHANGED <<requestVars, ensembleVars, feedbackVars, callVars,
                   threadVars>>

SpecShared == Init /\ [][SharedNext]_vars

(***************************************************************************)
(* Properties                                                              *)
(***************************************************************************)
Failures == {"DataQualityError", "TimeoutError", "GovernmentMLServiceError"}

\* the entries of q that belong to S, in order
RECURSIVE Restrict(_, _)
Restrict(q, S) ==
    IF q = <<>> THEN <<>>
    ELSE (IF Head(q) \in S THEN <<Head(q)>> ELSE <<>>) \o Restrict(Tail(q), S)

Elapsed == now - breaker.last_failure_time

\* C1: once threshold record_failure calls have been made in a row,
\* can_execute returns false as long as no more than reset_timeout seconds
\* have passed since the last failure; once more than reset_timeout seconds
\* have passed, the next can_execute returns true and leaves
\* failure_count = 0 and is_open = false.
C1_OpensThenRecloses ==
    [][(CanExecute /\ streak >= breaker.threshold) =>
          /\ Elapsed <= breaker.reset_timeout =>
                 (~last_call'.ret /\ breaker' = breaker)
          /\ Elapsed > breaker.reset_timeout =>
                 /\ last_call'.ret
                 /\ breaker'.failure_count = 0
                 /\ ~breaker'.is_open]_vars

C1_Witness ==
    /\ last_call.called /\ last_call.ret /\ last_call.reclosed
    /\ breaker.failure_count = 0 /\ ~breaker.is_open
    /\ Elapsed > breaker.reset_timeout

\* C2: the step that ends an admitted evaluate_risk request records exactly
\* one breaker outcome: record_success if and only if the request returns a
\* response, record_failure if and only if it ends with DataQualityError,
\* TimeoutError or the wrapped other exception; the steps of a request in
\* flight record nothing.
C2_OneOutcomePerRequest ==
    [][\A r \in Requests :
          /\ (pc[r] \notin {"idle", "done"} /\ pc'[r] = "done") =>
                /\ outcome'[r] \in Failures \cup {"response"}
                /\ outcome'[r] = "response" <=>
                       breaker' = record_success(breaker)
                /\ outcome'[r] \in Failures <=>
                       breaker' = record_failure(breaker, now)
          /\ (pc[r] \notin {"idle", "done"} /\ pc'[r] # "done"
              /\ pc'[r] # pc[r]) => breaker' = breaker]_vars

C2_Witness ==
    \E r \in Requests :
        /\ pc[r] = "done" /\ outcome[r] = "GovernmentMLServiceError"
        /\ raised[r] = "registry"
        /\ breaker.failure_count >= 1 /\ breaker.last_failure_time = now

\* C3: a request rejected with CircuitBreakerOpenError leaves
\* failure_count, last_failure_time and is_open as they were, and no stage
\* is run for it: no worker is started and the duplicate set is untouched.
C3_RejectionChangesNothing ==
    [][\A r \in Requests :
          (Begin(r) /\ outcome'[r] = "CircuitBreakerOpenError") =>
              /\ breaker'.failure_count = breaker.failure_count
              /\ breaker'.last_failure_time = breaker.last_failure_time
              /\ breaker'.is_open = breaker.is_open
              /\ worker'[r] = "none"
              /\ seen_hashes' = seen_hashes
              /\ trace'[r] = <<"circuit_breaker">>]_vars

C3_Witness ==
    \E r \in Requests :
        /\ pc[r] = "done" /\ outcome[r] = "CircuitBreakerOpenError"
        /\ breaker.is_open
        /\ breaker.failure_count >= circuit_breaker_threshold

\* C4: a request whose dq_result has usable = false has ended with
\* DataQualityError right after the gate, and neither the ensemble nor a
\* domain classifier was called for it.
C4_UnusableShortCircuits ==
    \A r \in Requests :
        (dq_result[r].set /\ ~dq_result[r].result.usable) =>
            /\ pc[r] = "done"
            /\ outcome[r] = "DataQualityError"
            /\ Restrict(trace[r], {"ensemble", "domain_classifier",
                                   "political_classifier"}) = <<>>

C4_Witness ==
    \E r \in Requests :
        /\ dq_result[r].set /\ ~dq_result[r].result.usable
        /\ HasIssue(dq_result[r].result, "INVALID_LENGTH")
        /\ outcome[r] = "DataQualityError"

\* C5: when the deadline of with_timeout has expired the caller is not
\* kept waiting for the stage: it is never inside with_timeout, past the
\* deadline, with the stage still running.
C5_UnblockedAtDeadline ==
    \A r \in Requests :
        ~(pc[r] \in {"dq_join", "ens_join"} /\ worker[r] = "running")

C7_AbstentionIsSuccess ==
    [][\A r \in Requests :
          (pc[r] = "ens_wait" /\ pc'[r] = "done"
           /\ uncertainty_result'[r].set /\ uncertainty_result'[r].abstain
           /\ raised'[r] = "none") =>
              /\ outcome'[r] = "response"
              /\ resp'[r].set /\ resp'[r].prediction = "HUMAN_REVIEW"
              /\ breaker' = record_success(breaker)
              /\ breaker'.failure_count = 0 /\ ~breaker'.is_open]_vars

C7_Witness ==
    \E r \in Requests :
        /\ outcome[r] = "response" /\ resp[r].set /\ resp[r].abstain
        /\ resp[r].verdict = "ABSTAIN"
        /\ breaker.failure_count = 0
        /\ breaker.last_failure_time # None

NoHigh(result) ==
    \A i \in 1..Len(result.issues) : result.issues[i].severity # "HIGH"

\* C8: validate returns usable = true exactly when the final score is at
\* least 0.6, no issue has severity HIGH and, in strict mode, no issue at
\* all was recorded.
C8_UsableIff ==
    dq_last.called =>
        (dq_last.result.usable <=>
            /\ dq_last.result.data_quality_score >= 6000
            /\ NoHigh(dq_last.result)
            /\ strict_mode => dq_last.result.issues = <<>>)

C8_Witness ==
    /\ dq_last.called /\ ~strict_mode
    /\ ~dq_last.result.usable
    /\ dq_last.result.data_quality_score >= 6000
    /\ ~NoHigh(dq_last.result)

\* C9 as stated: the first validate of a normalized form reports no
\* DUPLICATE_CONTENT and the second reports it, whatever was validated in
\* between.
C9_SecondIsDuplicate ==
    dq_last.called =>
        /\ dq_last.nth = 0 => ~HasIssue(dq_last.result, "DUPLICATE_CONTENT")
        /\ dq_last.nth = 1 => HasIssue(dq_last.result, "DUPLICATE_CONTENT")

\* C9 as amended: the first validate of a normalized form reports no
\* DUPLICATE_CONTENT, and a later one reports it exactly when the hash has
\* not been discarded by the overflow eviction since it was last added.
C9_DuplicateUnlessEvicted ==
    dq_last.called =>
        /\ dq_last.nth = 0 => ~HasIssue(dq_last.result, "DUPLICATE_CONTENT")
        /\ dq_last.nth >= 1 =>
              (HasIssue(dq_last.result, "DUPLICATE_CONTENT") <=> ~dq_last.lost)

C9_Witness ==
    /\ dq_last.called /\ dq_last.nth = 1
    /\ dq_last.text.chars # _compute_hash(dq_last.text)
    /\ HasIssue(dq_last.result, "DUPLICATE_CONTENT")
    /\ Cardinality(seen_hashes) >= 3

\* C10: the current_weight values sum to 1, and so do the weights
\* _get_current_weights returns.
C10_WeightsSumToOne ==
    /\ FSum(CurrentWeights(adaptive_weights), ModelNames) = One
    /\ FSum(_get_current_weights(adaptive_weights), ModelNames) = One

C10_Witness ==
    /\ updates >= 1 /\ feedback_history >= 10
    /\ Len(adaptive_weights["transformer"].accuracy_history) >= 5
    /\ Len(adaptive_weights["linear"].accuracy_history) < 5
    /\ adaptive_weights["linear"].current_weight
           # adaptive_weights["linear"].base_weight

\* C11: submit_correction classifies a correction as CORRECT when the labels
\* are equal, otherwise FALSE_POSITIVE for a corrected label NO_RISK,
\* LOW_RISK or REAL, otherwise FALSE_NEGATIVE for HIGH_RISK or FAKE,
\* otherwise OVERRIDE; and the submission adds one to exactly one of the four
\* outcome counters of its domain (None counted as general) and leaves the
\* counters of the other domains alone.
OutcomeCounters(m) ==
    <<m.correct_predictions, m.false_positives, m.false_negatives,
      m.overrides>>

C11_ClassifiedAndCounted ==
    fb_last.called =>
        LET rec == fb_last.record
            d == IF rec.domain = NoDomain THEN "general" ELSE rec.domain
            old == IF d \in DOMAIN fb_last.before
                   THEN OutcomeCounters(fb_last.before[d])
                   ELSE <<0, 0, 0, 0>>
            new == OutcomeCounters(metrics_by_domain[d])
            nth == CASE rec.feedback_type = "CORRECT" -> 1
                     [] rec.feedback_type = "FALSE_POSITIVE" -> 2
                     [] rec.feedback_type = "FALSE_NEGATIVE" -> 3
                     [] rec.feedback_type = "OVERRIDE" -> 4
        IN  /\ rec.feedback_type = "CORRECT"
                <=> rec.original_prediction = rec.corrected_label
            /\ rec.feedback_type = "FALSE_POSITIVE"
                <=> /\ rec.original_prediction # rec.corrected_label
                    /\ rec.corrected_label \in {"NO_RISK", "LOW_RISK", "REAL"}
            /\ rec.feedback_type = "FALSE_NEGATIVE"
                <=> /\ rec.original_prediction # rec.corrected_label
                    /\ rec.corrected_label \in {"HIGH_RISK", "FAKE"}
            /\ rec.feedback_type = "OVERRIDE"
                <=> /\ rec.original_prediction # rec.corrected_label
                    /\ rec.corrected_label \notin
                          {"NO_RISK", "LOW_RISK", "REAL", "HIGH_RISK", "FAKE"}
            /\ \A i \in 1..4 : new[i] = old[i] + (IF i = nth THEN 1 ELSE 0)
            /\ \A e \in DOMAIN fb_last.before :
                  e # d => metrics_by_domain[e] = fb_last.before[e]

C11_Witness ==
    /\ fb_last.called
    /\ fb_last.record.original_prediction = "HIGH_RISK"
    /\ fb_last.record.corrected_label = "NO_RISK"
    /\ fb_last.record.domain = NoDomain
    /\ fb_last.record.feedback_type = "FALSE_POSITIVE"
    /\ "general" \in DOMAIN fb_last.before
    /\ metrics_by_domain["general"].false_positives = 1

\* C12: should_abstain returns true exactly when uncertainty times the
\* domain's uncertainty weight exceeds 0.25, or agreement is below 0.60
\* (0.70 when the domain requires higher agreement), or the domain has extra
\* caution and uncertainty exceeds 0.15; an unknown or missing domain is
\* treated as general.
ConfigOf(domain) ==
    IF domain \in DOMAIN DOMAIN_CONFIGS
    THEN DOMAIN_CONFIGS[domain] ELSE DOMAIN_CONFIGS["general"]

C12_AbstainIff ==
    (pure_ret.called /\ pure_ret.arg.fn = "should_abstain") =>
        LET u == pure_ret.arg.uncertainty
            a == pure_ret.arg.agreement
            cfg == ConfigOf(pure_ret.arg.domain)
        IN  /\ pure_ret.result.abstain
                <=> \/ u * cfg.uncertainty_weight > 25000
                    \/ a < (IF cfg.require_higher_agreement
                            THEN 7000 ELSE 6000)
                    \/ cfg.extra_caution /\ u > 1500
            /\ (pure_ret.arg.domain = "political" /\ u = 3000)
                  => pure_ret.result.abstain
            /\ (pure_ret.arg.domain = "general" /\ u = 500 /\ a = 9500)
                  => ~pure_ret.result.abstain

C12_Witness ==
    /\ pure_ret.called /\ pure_ret.arg.fn = "should_abstain"
    /\ pure_ret.arg.domain = "defamation"
    /\ pure_ret.arg.uncertainty = 1500
    /\ pure_ret.arg.agreement = 6999
    /\ pure_ret.result.abstain

\* C13: in every DecisionResult of make_decision, should_abstain, risk_level
\* HUMAN_REVIEW and verdict ABSTAIN go together; when not abstaining the risk
\* level is NO_RISK, LOW_RISK, MEDIUM_RISK or HIGH_RISK for an adjusted score
\* below 0.15, below 0.35, below 0.65 or otherwise, and the verdict is FAKE
\* for HIGH_RISK, REAL for NO_RISK and UNVERIFIED for the other two; the
\* confidence is 0.5 when abstaining.
C13_DecisionConsistent ==
    (pure_ret.called /\ pure_ret.arg.fn = "make_decision") =>
        LET res == pure_ret.result
            adj == res.threshold_used
        IN  /\ res.should_abstain <=> res.risk_level = "HUMAN_REVIEW"
            /\ res.should_abstain <=> res.verdict = "ABSTAIN"
            /\ ~res.should_abstain =>
                  /\ res.risk_level = "NO_RISK" <=> adj < 15000
                  /\ res.risk_level = "LOW_RISK"
                        <=> (15000 <= adj /\ adj < 35000)
                  /\ res.risk_level = "MEDIUM_RISK"
                        <=> (35000 <= adj /\ adj < 65000)
                  /\ res.risk_level = "HIGH_RISK" <=> 65000 <= adj
                  /\ res.verdict = "FAKE" <=> res.risk_level = "HIGH_RISK"
                  /\ res.verdict = "REAL" <=> res.risk_level = "NO_RISK"
                  /\ res.verdict = "UNVERIFIED"
                        <=> res.risk_level \in {"LOW_RISK", "MEDIUM_RISK"}
            /\ res.should_abstain => res.confidence = 5000

C13_Witness ==
    /\ pure_ret.called /\ pure_ret.arg.fn = "make_decision"
    /\ pure_ret.arg.calibrated_score = 500
    /\ pure_ret.arg.uncertainty = 500
    /\ pure_ret.arg.agreement = 9500
    /\ pure_ret.arg.domain = "general"
    /\ pure_ret.result.risk_level = "NO_RISK"
    /\ pure_ret.result.verdict = "REAL"
    /\ ~pure_ret.result.should_abstain
    /\ Len(decision_history) = 1

\* C14: quantify sets abstain exactly when the total uncertainty exceeds
\* 0.25 or the confidence is below 0.6 or the agreement is below 0.6, the
\* agreement being 1 - (max - min) of the ensemble scores when two or more
\* are given; the label is HUMAN_REVIEW exactly when abstain is set.
C14_QuantifyAbstainIff ==
    (pure_ret.called /\ pure_ret.arg.fn = "quantify") =>
        LET res == pure_ret.result
            scores == pure_ret.arg.ensemble_scores
            agreement ==
                IF Cardinality(DOMAIN scores) >= 2
                THEN 10000 - (MaxOf(scores) - MinOf(scores))
                ELSE res.agreement
        IN  /\ res.abstain <=> \/ res.uncertainty > 2500
                               \/ pure_ret.arg.confidence < 6000
                               \/ agreement < 6000
            /\ res.abstain <=> res.prediction = "HUMAN_REVIEW"

C14_Witness ==
    /\ pure_ret.called /\ pure_ret.arg.fn = "quantify"
    /\ pure_ret.arg.confidence >= 6000
    /\ pure_ret.result.uncertainty <= 2500
    /\ Cardinality(DOMAIN pure_ret.arg.ensemble_scores) = 2
    /\ MaxOf(pure_ret.arg.ensemble_scores)
         - MinOf(pure_ret.arg.ensemble_scores) = 4001
    /\ pure_ret.result.abstain
    /\ pure_ret.result.prediction = "HUMAN_REVIEW"

\* C15: for every raw score in [0,1] and every method name, recognized or
\* not, the calibrated_score of ModelCalibrator.calibrate lies in [0,1].
C15_CalibratedInRange ==
    (pure_ret.called /\ pure_ret.arg.fn = "calibrate") =>
        /\ 0 <= pure_ret.result.calibrated_score
        /\ pure_ret.result.calibrated_score <= 10000

C15_Witness ==
    /\ pure_ret.called /\ pure_ret.arg.fn = "calibrate"
    /\ pure_ret.arg.method = "beta"
    /\ pure_ret.arg.raw_score = 10000
    /\ pure_ret.result.calibrated_score = platt_calibrate(10000)
    /\ pure_ret.result.calibrated_score \in 2590..2594

\* C16: in evaluate_risk an input longer than max_text_length characters is
\* cut to max_text_length before the data-quality checks, so that the gate
\* never validates a text longer than max_text_length.
C16_GateSeesTruncatedText ==
    dq_last.called => dq_last.text.length <= max_text_length

\* C17: every 10th correction submitted through submit_feedback triggers an
\* adaptive-weight update (_update_weights), and no other correction does.
C17_UpdateEveryTenth == updates = submitted \div 10

\* C18: the weights used to score a request are the adaptive weights as
\* last updated by feedback: the weights_used of an ensemble prediction are
\* the current adaptive weights of the models it combines.
C18_RequestUsesAdaptiveWeights ==
    (pure_ret.called /\ pure_ret.arg.fn = "predict") =>
        \A m \in DOMAIN pure_ret.result.weights_used :
            pure_ret.result.weights_used[m] = pure_ret.adaptive[m]

\* C19: feedback_records never holds more than MAX_HISTORY records, the
\* records are in submission order, and they are exactly the most recent
\* ones: on overflow the oldest record is the one dropped.
C19_MostRecentRecordsKept ==
    /\ Len(feedback_records) = Min(submitted, MaxHistory)
    /\ \A i \in 1..Len(feedback_records) :
          feedback_records[i].scan_id
              = submitted - Len(feedback_records) + i

C19_Witness ==
    /\ submitted = MaxHistory + 2
    /\ Len(feedback_records) = MaxHistory
    /\ feedback_records[1].scan_id = 3
    /\ feedback_records[MaxHistory].scan_id = submitted

\* C20: with several requests in flight, an open breaker stays open until
\* reset_timeout seconds have passed since the last recorded failure: every
\* step that closes the breaker happens after that time (the auto-close of
\* can_execute), and the outcome of a request admitted earlier never closes
\* it before.
C20_OpenUntilTimeout ==
    [][(breaker.is_open /\ ~breaker'.is_open)
          => now - breaker.last_failure_time > circuit_breaker_reset]_vars

(***************************************************************************)
(* C21: when requests fail at the same time, no increment of              *)
(* failure_count is lost: once the record_failure calls have returned,     *)
(* failure_count equals their number, and the breaker is open when that    *)
(* number has reached the threshold.                                       *)
(***************************************************************************)
C21_NoLostIncrement ==
    (\A t \in Threads : fail_pc[t] = "idle")
        => /\ breaker.failure_count = streak
           /\ streak >= breaker.threshold => breaker.is_open

(***************************************************************************)
(* C22: a validate call abandoned by with_timeout writes no shared state:  *)
(* the step in which the worker of a request whose deadline has passed     *)
(* finishes validate leaves the duplicate-content set as it was.           *)
(***************************************************************************)
C22_AbandonedStageWritesNothing ==
    [][\A r \in Requests :
          (pc[r] = "dq_join" /\ worker[r] = "running" /\ worker'[r] = "done")
              => seen_hashes' = seen_hashes]_vars

(***************************************************************************)
(* C23: _analyze_and_suggest runs on every AnalysisEvery-th record         *)
(* submitted over the lifetime of the FeedbackLoop and on no other, also   *)
(* after the history has reached its cap.                                  *)
(***************************************************************************)
C23_AnalysisEveryNth ==
    fb_last.called => (fb_last.analysed <=> submitted % AnalysisEvery = 0)

(***************************************************************************)
(* C24: after every check_duplicate call the duplicate-content set holds   *)
(* at most its cap of hashes, and the hash of the text just checked is     *)
(* still in it: an overflow evicts the oldest hashes, never the newest.    *)
(***************************************************************************)
C24_NewestHashKept ==
    /\ Cardinality(seen_hashes) <= MaxSeenHashes
    /\ dq_last.called => dq_last.result.text_hash \in seen_hashes

(***************************************************************************)
(* C25: in any sequence of record_failure, record_success and can_execute  *)
(* calls made one after the other, is_open holds exactly when              *)
(* failure_count >= threshold; so the breaker opens only by the            *)
(* record_failure call that completes threshold failures in a row since    *)
(* the last success or auto-close.                                         *)
(***************************************************************************)
C25_OpenIffThreshold ==
    /\ [](breaker.is_open <=> breaker.failure_count >= breaker.threshold)
    /\ [][(~breaker.is_open /\ breaker'.is_open)
             => (streak' >= breaker.threshold
                 /\ breaker'.failure_count = streak')]_vars

\* after an auto-close, threshold - 1 failures have left the breaker closed
C25_Witness ==
    /\ last_call.called /\ last_call.reclosed
    /\ streak = breaker.threshold - 1
    /\ breaker.failure_count = streak
    /\ ~breaker.is_open

(***************************************************************************)
(* C26: MLService and GovernmentMLService are gated by one breaker, and    *)
(* failures caused by the input count toward it.  A request to either      *)
(* service made after threshold failed requests in a row (to either        *)
(* service) is rejected with CircuitBreakerOpenError, whatever its input,  *)
(* as long as no more than reset_timeout seconds have passed since the     *)
(* last failure, and is admitted once they have; an admitted request with  *)
(* an empty text (MLService) or an unusable text (evaluate_risk) fails and *)
(* adds one to failure_count.                                              *)
(***************************************************************************)
C26_SharedBreaker ==
    [][svc_last'.n = svc_last.n + 1 =>
         LET rejected == svc_last'.outcome = "CircuitBreakerOpenError" IN
         /\ (streak >= breaker.threshold /\ Elapsed <= breaker.reset_timeout)
               => (rejected /\ breaker' = breaker)
         /\ (streak >= breaker.threshold /\ Elapsed > breaker.reset_timeout)
               => ~rejected
         /\ (~rejected /\ ~svc_last'.input_ok)
               => /\ svc_last'.outcome \in {"ServiceError", "DataQualityError"}
                  /\ streak' = (IF breaker.is_open THEN 0 ELSE streak) + 1
                  /\ breaker'.failure_count = streak']_vars

\* failures of both services have opened the breaker, and a request to
\* MLService with a valid text was rejected
C26_Witness ==
    /\ svc_last.called
    /\ svc_last.service = "MLService" /\ svc_last.input_ok
    /\ svc_last.outcome = "CircuitBreakerOpenError"
    /\ svc_last.failed_by = Services
    /\ streak = breaker.threshold /\ breaker.is_open

\* the sum of total_predictions over the domains
TotalOf(by_domain) ==
    SumOver([d \in DOMAIN by_domain |-> by_domain[d].total_predictions],
            DOMAIN by_domain)

AddsUp(m) ==
    m.total_predictions
        = m.correct_predictions + m.false_positives + m.false_negatives
          + m.overrides

(***************************************************************************)
(* C27: after any sequence of submit_correction calls, in the overall      *)
(* metrics and in the metrics of every domain total_predictions is the sum *)
(* of the four outcome counters, and the overall total_predictions is the  *)
(* sum of the domains' total_predictions and the number of corrections     *)
(* submitted: eviction from the history decrements nothing.                *)
(***************************************************************************)
C27_CountersAddUp ==
    /\ AddsUp(overall_metrics)
    /\ \A d \in DOMAIN metrics_by_domain : AddsUp(metrics_by_domain[d])
    /\ overall_metrics.total_predictions = TotalOf(metrics_by_domain)
    /\ overall_metrics.total_predictions = submitted

\* records have been evicted, and every counter has counted
C27_Witness ==
    /\ submitted > MaxHistory /\ Len(feedback_records) = MaxHistory
    /\ \A i \in 1..4 : OutcomeCounters(overall_metrics)[i] > 0
    /\ DOMAIN metrics_by_domain = {"general", "political"}
    /\ metrics_by_domain["political"].total_predictions >= 2

\* scores at the borders of the bands of RISK_LABELS, in 1/10000
BandScores == {0, 1499, 1500, 3999, 4000, 6999, 7000, 9999, 10000}

\* prediction, verdict and abstain flag agree
Consistent(prediction, verdict, abstain) ==
    /\ abstain <=> prediction = "HUMAN_REVIEW"
    /\ prediction = "HUMAN_REVIEW" <=> verdict = "ABSTAIN"
    /\ ~abstain =>
          /\ verdict = "FAKE" <=> prediction = "HIGH_RISK"
          /\ verdict = "REAL" <=> prediction = "NO_RISK"
          /\ prediction \in {"LOW_RISK", "MEDIUM_RISK"}
                => verdict = "UNVERIFIED"

(***************************************************************************)
(* C28: every response of evaluate_risk is consistent: it abstains exactly *)
(* when its prediction is HUMAN_REVIEW and exactly when its verdict is     *)
(* ABSTAIN; when it does not abstain, its verdict is FAKE exactly for      *)
(* HIGH_RISK, REAL exactly for NO_RISK, and UNVERIFIED for LOW_RISK and    *)
(* MEDIUM_RISK.  The same holds of the label and verdict computed for any  *)
(* score of any band.                                                      *)
(***************************************************************************)
C28_ResponseConsistent ==
    /\ \A r \in Requests :
          resp[r].set =>
              Consistent(resp[r].prediction, resp[r].verdict, resp[r].abstain)
    /\ \A score \in BandScores :
          /\ Consistent(_get_risk_label(score),
                        _get_verdict(_get_risk_label(score)), FALSE)
          /\ Consistent("HUMAN_REVIEW", _get_verdict("HUMAN_REVIEW"), TRUE)

\* a response that abstains on a score of the MEDIUM_RISK band
C28_Witness ==
    \E r \in Requests :
        /\ outcome[r] = "response" /\ resp[r].set
        /\ resp[r].abstain /\ resp[r].prediction = "HUMAN_REVIEW"
        /\ resp[r].verdict = "ABSTAIN"
        /\ _get_risk_label(resp[r].calibrated_score) = "MEDIUM_RISK"

\* lines 202-214 of evaluate_risk for a raw score, when the uncertainty
\* stage does not abstain: the prediction and the verdict
Banded(raw_score) ==
    LET prediction ==
            _get_risk_label(calibrate(raw_score, "platt").calibrated_score)
    IN  [prediction |-> prediction, verdict |-> _get_verdict(prediction)]

(***************************************************************************)
(* C29: every outcome other than abstention is reachable: some raw score   *)
(* in [0,1] gives the prediction HIGH_RISK with the verdict FAKE, and some *)
(* raw score gives NO_RISK with REAL.  Stated of the calibrator in any     *)
(* state in which it has been called.                                      *)
(***************************************************************************)
C29_EveryOutcomeReachable ==
    pure_ret.called =>
        /\ \E raw_score \in RawScores :
              Banded(raw_score)
                  = [prediction |-> "HIGH_RISK", verdict |-> "FAKE"]
        /\ \E raw_score \in RawScores :
              Banded(raw_score)
                  = [prediction |-> "NO_RISK", verdict |-> "REAL"]

(***************************************************************************)
(* C30: _update_weights is idempotent when no accuracy sample arrives in   *)
(* between: run on the weights it has just produced, it leaves the         *)
(* current_weight of every model unchanged, the models with fewer than 5   *)
(* samples included.                                                       *)
(***************************************************************************)
C30_UpdateIdempotent ==
    LET once == _update_weights(adaptive_weights) IN
    CurrentWeights(_update_weights(once)) = CurrentWeights(once)
====
